---- MODULE Spec2Model ----
(***************************************************************************)
(* A model of the colour-scale helpers of deckgl-dash                      *)
(* (src/deckgl_dash/colors.py): the fluent ColorScale builder with its     *)
(* accessor() serialisation, and the discrete sampler                      *)
(* color_range_from_scale with its float interpolation; and of the layer   *)
(* helpers (src/dash_deckgl/layers/base.py): normalize_color with its hex  *)
(* parser, and the property store of BaseLayer.                            *)
(*                                                                         *)
(* Python values are modelled as records [kind, v]: kind "None" for None,  *)
(* "int" for an integer v, "nan" for the float NaN (every ordering         *)
(* comparison with it is False).                                           *)
(***************************************************************************)
EXTENDS Integers, Sequences, FiniteSets, TLC

VARIABLES
    self,         \* the ColorScale object: NoObject before construction
    ret,          \* outcome of the most recent call: returned value or raised error
    op,           \* the most recent call: its name and arguments
    hist,         \* history of the modifier calls made on the builder
    sample_call,  \* the most recent call of color_range_from_scale: its arguments
    sample_ret,   \* what that call returned or raised
    color_call,   \* the call of normalize_color: its argument
    color_ret,    \* what that call returned or raised
    layer,        \* a layer object: its class, id and _props
    layer_call,   \* the most recent _set_prop on the layer: key and value
    layer_ret,    \* what that call returned or raised
    layer_hist,   \* the names _set_prop has stored a value under
    fn_call,      \* the call of a serialising function: its name and arguments
    fn_ret,       \* what that call returned or raised
    rel,          \* a run of the release script: its position and its effects
    dicts,        \* the dict objects style layers and their caller refer to
    style_layers  \* the MapLibre style layer objects constructed so far

scaleVars == <<self, ret, op, hist>>
sampleVars == <<sample_call, sample_ret>>
colorVars == <<color_call, color_ret>>
layerVars == <<layer, layer_call, layer_ret, layer_hist>>
fnVars == <<fn_call, fn_ret>>
styleVars == <<dicts, style_layers>>
vars == <<self, ret, op, hist, sample_call, sample_ret, color_call, color_ret,
          layer, layer_call, layer_ret, layer_hist, fn_call, fn_ret, rel,
          dicts, style_layers>>

\* the variables the ColorScale methods / the sampler / normalize_color /
\* the layer methods / the serialising functions / the release script do
\* not touch
notScale == <<sampleVars, colorVars, layerVars, fnVars, rel, styleVars>>
notSample == <<scaleVars, colorVars, layerVars, fnVars, rel, styleVars>>
notColor == <<scaleVars, sampleVars, layerVars, fnVars, rel, styleVars>>
notLayer == <<scaleVars, sampleVars, colorVars, fnVars, rel, styleVars>>
notFn == <<scaleVars, sampleVars, colorVars, layerVars, rel, styleVars>>
notRelease == <<scaleVars, sampleVars, colorVars, layerVars, fnVars, styleVars>>
notStyle == <<scaleVars, sampleVars, colorVars, layerVars, rel>>

----------------------------------------------------------------------------
(* Python values *)

None == [kind |-> "None", v |-> 0]
NaN == [kind |-> "nan", v |-> 0]
PyInt(n) == [kind |-> "int", v |-> n]

\* a >= b on Python numbers: False whenever an operand is NaN
PyGe(a, b) == a.kind = "int" /\ b.kind = "int" /\ a.v >= b.v
\* a < b on Python numbers: False whenever an operand is NaN
PyLt(a, b) == a.kind = "int" /\ b.kind = "int" /\ a.v < b.v
\* a <= b on Python numbers
PyLe(a, b) == a.kind = "int" /\ b.kind = "int" /\ a.v <= b.v

DigitChars == <<"0", "1", "2", "3", "4", "5", "6", "7", "8", "9">>

RECURSIVE StrNat(_)
StrNat(n) ==
    IF n < 10 THEN DigitChars[n + 1]
    ELSE StrNat(n \div 10) \o DigitChars[(n % 10) + 1]

\* str(x) of a Python number
str(x) ==
    IF x.kind = "nan" THEN "nan"
    ELSE IF x.v < 0 THEN "-" \o StrNat(0 - x.v)
    ELSE StrNat(x.v)

\* sep.join(parts)
RECURSIVE join(_, _)
join(sep, parts) ==
    IF parts = <<>> THEN ""
    ELSE IF Len(parts) = 1 THEN parts[1]
    ELSE parts[1] \o sep \o join(sep, Tail(parts))

----------------------------------------------------------------------------
(* Bounds of the inputs *)

MaxDomain == 2      \* domain arguments range over 0..MaxDomain and NaN
AlphaProbe == 0     \* alpha arguments range over -1..AlphaProbe and 255, 256
MaxNames == 2       \* the builder is exercised on the first MaxNames registry names

----------------------------------------------------------------------------
(* colors.py: registry *)

AVAILABLE_SCALES ==
    << "OrRd", "PuBu", "BuPu", "Oranges", "BuGn", "YlOrBr", "YlGn", "Reds",
       "RdPu", "Greens", "YlGnBu", "Purples", "GnBu", "Greys", "YlOrRd",
       "PuRd", "Blues", "PuBuGn",
       "Spectral", "RdYlGn", "RdBu", "PiYG", "PRGn", "RdYlBu", "BrBG", "RdGy", "PuOr",
       "viridis", "plasma", "inferno", "magma", "cividis", "turbo" >>

\* _SCALE_COLORS: the control-point tables
SCALE_COLORS ==
    [ viridis |-> <<"#440154", "#482878", "#3e4a89", "#31688e", "#26828e", "#1f9e89", "#35b779", "#6ece58", "#b5de2b", "#fde725">>,
      plasma |-> <<"#0d0887", "#46039f", "#7201a8", "#9c179e", "#bd3786", "#d8576b", "#ed7953", "#fb9f3a", "#fdca26", "#f0f921">>,
      inferno |-> <<"#000004", "#1b0c41", "#4a0c6b", "#781c6d", "#a52c60", "#cf4446", "#ed6925", "#fb9b06", "#f7d13d", "#fcffa4">>,
      magma |-> <<"#000004", "#180f3d", "#440f76", "#721f81", "#9e2f7f", "#cd4071", "#f1605d", "#fd9668", "#feca8d", "#fcfdbf">>,
      cividis |-> <<"#00204d", "#00336f", "#39486b", "#575c6d", "#6f7174", "#87877b", "#a09e81", "#bab587", "#d6cd8e", "#ffe945">>,
      turbo |-> <<"#30123b", "#4662d7", "#35aaf9", "#1ae4b6", "#72fe5e", "#c8ef34", "#faba39", "#f66b19", "#ca2a04", "#7a0403">>,
      OrRd |-> <<"#fff7ec", "#fee8c8", "#fdd49e", "#fdbb84", "#fc8d59", "#ef6548", "#d7301f", "#b30000", "#7f0000">>,
      YlGnBu |-> <<"#ffffd9", "#edf8b1", "#c7e9b4", "#7fcdbb", "#41b6c4", "#1d91c0", "#225ea8", "#253494", "#081d58">>,
      RdYlBu |-> <<"#a50026", "#d73027", "#f46d43", "#fdae61", "#fee090", "#ffffbf", "#e0f3f8", "#abd9e9", "#74add1", "#4575b4", "#313695">>,
      Spectral |-> <<"#9e0142", "#d53e4f", "#f46d43", "#fdae61", "#fee08b", "#ffffbf", "#e6f598", "#abdda4", "#66c2a5", "#3288bd", "#5e4fa2">>,
      Blues |-> <<"#f7fbff", "#deebf7", "#c6dbef", "#9ecae1", "#6baed6", "#4292c6", "#2171b5", "#08519c", "#08306b">>,
      Reds |-> <<"#fff5f0", "#fee0d2", "#fcbba1", "#fc9272", "#fb6a4a", "#ef3b2c", "#cb181d", "#a50f15", "#67000d">>,
      Greens |-> <<"#f7fcf5", "#e5f5e0", "#c7e9c0", "#a1d99b", "#74c476", "#41ab5d", "#238b45", "#006d2c", "#00441b">> ]

\* the names that have a control-point table
TableNames == DOMAIN SCALE_COLORS

\* variant: membership tested against the control-point tables
InRegistry_tables_only(name) == name \in TableNames

\* scale_name in AVAILABLE_SCALES
InRegistry(name) == \E i \in 1..Len(AVAILABLE_SCALES) : AVAILABLE_SCALES[i] = name

NoObject == [constructed |-> FALSE]

\* Inputs of the calls
UnknownNames == {"not_a_real_scale", "Viridis", ""}
NameInputs == { AVAILABLE_SCALES[i] : i \in 1..MaxNames } \cup UnknownNames
AllNameInputs == { AVAILABLE_SCALES[i] : i \in 1..Len(AVAILABLE_SCALES) } \cup UnknownNames
DomainInputs == { PyInt(n) : n \in 0..MaxDomain } \cup {NaN}
AlphaInputs == { PyInt(n) : n \in (-1..AlphaProbe) \cup {255, 256} }
PathInputs == {"properties.count", "value"}

NoCall == [name |-> "none", args |-> <<>>]
NoRet == [kind |-> "none", s |-> ""]
RetSelf == [kind |-> "self", s |-> ""]
RetValueError == [kind |-> "ValueError", s |-> ""]
RetStr(s) == [kind |-> "str", s |-> s]

\* mode: the most recent of log()/sqrt(); both: log() and sqrt() were both
\* called; rev: reverse() was called; revFirst: reverse() was called before
\* any log()/sqrt(); paths: the paths accessor() was called with
\* name: the name the object was constructed with
NoHist == [mode |-> "none", both |-> FALSE, rev |-> FALSE, revFirst |-> FALSE,
           paths |-> {}, name |-> ""]

----------------------------------------------------------------------------
(* colors.py: class ColorScale *)

\* ColorScale.__init__: the object after a successful construction
ColorScale_init(scale_name) ==
    [ constructed |-> TRUE, scale_name |-> scale_name,
      min |-> None, max |-> None, alpha |-> None,
      reverse |-> FALSE, log |-> FALSE, sqrt |-> FALSE ]

Construct(scale_name) ==
    /\ UNCHANGED notScale
    /\ self = NoObject
    /\ op' = [name |-> "init", args |-> <<scale_name>>]
    /\ IF ~InRegistry(scale_name)
       THEN /\ ret' = RetValueError
            /\ UNCHANGED <<self, hist>>
       ELSE /\ self' = ColorScale_init(scale_name)
            /\ ret' = NoRet
            /\ hist' = [NoHist EXCEPT !.name = scale_name]

\* variant: equal bounds accepted
domain_invalid_strict(min_val, max_val) ==
    min_val.kind = "int" /\ max_val.kind = "int" /\ min_val.v > max_val.v

\* the guard of ColorScale.domain that raises ValueError
domain_invalid(min_val, max_val) == PyGe(min_val, max_val)

domain(min_val, max_val) ==
    /\ UNCHANGED notScale
    /\ self # NoObject
    /\ op' = [name |-> "domain", args |-> <<min_val, max_val>>]
    /\ IF domain_invalid(min_val, max_val)
       THEN /\ ret' = RetValueError
            /\ UNCHANGED <<self, hist>>
       ELSE /\ self' = [self EXCEPT !.min = min_val, !.max = max_val]
            /\ ret' = RetSelf
            /\ UNCHANGED hist

\* variant: upper limit exclusive
alpha_invalid_exclusive(value) ==
    ~(PyLe(PyInt(0), value) /\ PyLt(value, PyInt(255)))

\* the guard of ColorScale.alpha that raises ValueError
alpha_invalid(value) == ~(PyLe(PyInt(0), value) /\ PyLe(value, PyInt(255)))

alpha(value) ==
    /\ UNCHANGED notScale
    /\ self # NoObject
    /\ op' = [name |-> "alpha", args |-> <<value>>]
    /\ IF alpha_invalid(value)
       THEN /\ ret' = RetValueError
            /\ UNCHANGED <<self, hist>>
       ELSE /\ self' = [self EXCEPT !.alpha = value]
            /\ ret' = RetSelf
            /\ UNCHANGED hist

\* variant: reverse() toggles the flag
reverse_fields_toggle(s) == [s EXCEPT !.reverse = ~@]

\* the fields after reverse()
reverse_fields(s) == [s EXCEPT !.reverse = TRUE]

reverse ==
    /\ UNCHANGED notScale
    /\ self # NoObject
    /\ op' = [name |-> "reverse", args |-> <<>>]
    /\ self' = reverse_fields(self)
    /\ ret' = RetSelf
    /\ hist' = [hist EXCEPT !.rev = TRUE,
                            !.revFirst = IF hist.rev THEN @ ELSE hist.mode = "none"]

\* variant: the other mode is not cleared
log_fields_keep_sqrt(s) == [s EXCEPT !.log = TRUE]

\* the fields after log()
log_fields(s) == [s EXCEPT !.log = TRUE, !.sqrt = FALSE]

log ==
    /\ UNCHANGED notScale
    /\ self # NoObject
    /\ op' = [name |-> "log", args |-> <<>>]
    /\ self' = log_fields(self)
    /\ ret' = RetSelf
    /\ hist' = [hist EXCEPT !.mode = "log", !.both = @ \/ hist.mode = "sqrt"]

\* the fields after sqrt()
sqrt_fields(s) == [s EXCEPT !.sqrt = TRUE, !.log = FALSE]

sqrt ==
    /\ UNCHANGED notScale
    /\ self # NoObject
    /\ op' = [name |-> "sqrt", args |-> <<>>]
    /\ self' = sqrt_fields(self)
    /\ ret' = RetSelf
    /\ hist' = [hist EXCEPT !.mode = "sqrt", !.both = @ \/ hist.mode = "log"]

\* variant: modifiers listed in another order
modifiers_reverse_first(s) ==
    (IF s.reverse THEN <<"reverse">> ELSE <<>>)
        \o (IF s.log THEN <<"log">> ELSE <<>>)
        \o (IF s.sqrt THEN <<"sqrt">> ELSE <<>>)

\* accessor: the modifiers list
modifiers(s) ==
    (IF s.log THEN <<"log">> ELSE <<>>)
        \o (IF s.sqrt THEN <<"sqrt">> ELSE <<>>)
        \o (IF s.reverse THEN <<"reverse">> ELSE <<>>)

\* accessor: the scale name with its modifiers
scale_spec(s) ==
    IF modifiers(s) # <<>>
    THEN s.scale_name \o ":" \o join(":", modifiers(s))
    ELSE s.scale_name

\* Python truthiness of an optional number: None and 0 are false
Truthy(x) == x # None /\ ~(x.kind = "int" /\ x.v = 0)

\* variant: the optional fields tested for truth instead of "is not None"
params_truthy(s, property_path) ==
    <<scale_spec(s), property_path>>
        \o (IF Truthy(s.min) /\ Truthy(s.max)
            THEN <<str(s.min), str(s.max)>>
                    \o (IF Truthy(s.alpha) THEN <<str(s.alpha)>> ELSE <<>>)
            ELSE IF Truthy(s.alpha)
            THEN <<"", "", str(s.alpha)>>
            ELSE <<>>)

\* variant: alpha without a domain emitted without the two placeholders
params_no_placeholder(s, property_path) ==
    <<scale_spec(s), property_path>>
        \o (IF s.min # None /\ s.max # None
            THEN <<str(s.min), str(s.max)>>
                    \o (IF s.alpha # None THEN <<str(s.alpha)>> ELSE <<>>)
            ELSE IF s.alpha # None
            THEN <<str(s.alpha)>>
            ELSE <<>>)

\* accessor: the parameter list
params(s, property_path) ==
    <<scale_spec(s), property_path>>
        \o (IF s.min # None /\ s.max # None
            THEN <<str(s.min), str(s.max)>>
                    \o (IF s.alpha # None THEN <<str(s.alpha)>> ELSE <<>>)
            ELSE IF s.alpha # None
            THEN <<"", "", str(s.alpha)>>
            ELSE <<>>)

\* the string accessor() returns
accessor_string(s, property_path) ==
    "@@scale(" \o join(", ", params(s, property_path)) \o ")"

\* variant: serialising consumes the alpha
accessor_fields_consume(s) == [s EXCEPT !.alpha = None]

\* the object after accessor(): no field is assigned
accessor_fields(s) == s

accessor(property_path) ==
    /\ UNCHANGED notScale
    /\ self # NoObject
    /\ op' = [name |-> "accessor", args |-> <<property_path>>]
    /\ ret' = RetStr(accessor_string(self, property_path))
    /\ self' = accessor_fields(self)
    /\ hist' = [hist EXCEPT !.paths = @ \cup {property_path}]

----------------------------------------------------------------------------
(* The builder and its callers *)

NoSampleCall == [scale_name |-> "", steps |-> 0, reverse |-> FALSE, called |-> FALSE]
NoSampleRet == [kind |-> "none", v |-> <<>>]

NoColorCall == [arg |-> [kind |-> "None", s |-> "", v |-> <<>>], called |-> FALSE]
NoColorRet == [kind |-> "none", msg |-> "", v |-> <<>>]
NoLayer == [constructed |-> FALSE]
NoLayerCall == [name |-> "none"]
NoLayerRet == [kind |-> "none", msg |-> "", d |-> <<>>]

NoFnCall == [name |-> "none", called |-> FALSE]
NoFnRet == [kind |-> "none"]
NoRelease == [pc |-> "idle"]

\* nothing has been called on the builder / the sampler / normalize_color /
\* a layer / a serialising function, and the release script is not running
FnIdle == fn_call = NoFnCall /\ fn_ret = NoFnRet
ReleaseIdle == rel = NoRelease
StyleIdle == dicts = <<>> /\ style_layers = <<>>
ScaleIdle == self = NoObject /\ ret = NoRet /\ op = NoCall /\ hist = NoHist
SampleIdle == sample_call = NoSampleCall /\ sample_ret = NoSampleRet
ColorIdle == color_call = NoColorCall /\ color_ret = NoColorRet
LayerIdle ==
    /\ layer = NoLayer /\ layer_call = NoLayerCall /\ layer_ret = NoLayerRet
    /\ layer_hist = {}

InitScale ==
    /\ self = NoObject
    /\ ret = NoRet
    /\ op = NoCall
    /\ hist = NoHist
    /\ sample_call = NoSampleCall
    /\ sample_ret = NoSampleRet
    /\ ColorIdle
    /\ LayerIdle
    /\ StyleIdle
    /\ FnIdle
    /\ ReleaseIdle

NextScale ==
    \/ \E scale_name \in NameInputs : Construct(scale_name)
    \/ \E min_val \in DomainInputs, max_val \in DomainInputs : domain(min_val, max_val)
    \/ \E value \in AlphaInputs : alpha(value)
    \/ reverse
    \/ log
    \/ sqrt
    \/ \E property_path \in PathInputs : accessor(property_path)

SpecScale == InitScale /\ [][NextScale]_vars

\* The same builder constructed under every name of the registry, with its
\* modifiers and serialisation
NextRegistry ==
    \/ \E scale_name \in AllNameInputs : Construct(scale_name)
    \/ reverse
    \/ log
    \/ sqrt
    \/ \E property_path \in PathInputs : accessor(property_path)

SpecRegistry == InitScale /\ [][NextRegistry]_vars

----------------------------------------------------------------------------
(* Python float arithmetic (IEEE-754 binary64, round to nearest, ties to    *)
(* even) on the non-negative values the sampler computes.  A value is a    *)
(* fixed-point number of NumLimbs limbs of LimbBits bits, least significant *)
(* limb first, the last limb being the integer part.  Every float the      *)
(* sampler computes for steps - 1 < 2^10 has all its bits above            *)
(* 2^-(LimbBits * FracLimbs), so the representation is exact.              *)

LimbBits == 16
Base == 65536
FracLimbs == 4
NumLimbs == FracLimbs + 1
MantBits == 53

RECURSIVE Pow2(_)
Pow2(k) == IF k = 0 THEN 1 ELSE 2 * Pow2(k - 1)

RECURSIVE Zeros(_)
Zeros(m) == IF m <= 0 THEN <<>> ELSE <<0>> \o Zeros(m - 1)

BigFromInt(n) == Zeros(FracLimbs) \o <<n>>

RECURSIVE AddFrom(_, _, _, _)
AddFrom(x, y, j, carry) ==
    IF j > NumLimbs THEN <<>>
    ELSE LET sum == x[j] + y[j] + carry
         IN <<sum % Base>> \o AddFrom(x, y, j + 1, sum \div Base)

BigAdd(x, y) == AddFrom(x, y, 1, 0)

RECURSIVE SubFrom(_, _, _, _)
SubFrom(x, y, j, borrow) ==
    IF j > NumLimbs THEN <<>>
    ELSE LET diff == x[j] - y[j] - borrow
         IN <<(diff + Base) % Base>> \o SubFrom(x, y, j + 1, IF diff < 0 THEN 1 ELSE 0)

\* x - y for x >= y
BigSub(x, y) == SubFrom(x, y, 1, 0)

BigLess(x, y) ==
    \E j \in 1..NumLimbs :
        x[j] < y[j] /\ \A k \in (j + 1)..NumLimbs : x[k] = y[k]

RECURSIVE MulFrom(_, _, _, _)
MulFrom(x, k, j, carry) ==
    IF j > NumLimbs THEN <<>>
    ELSE LET prod == x[j] * k + carry
         IN <<prod % Base>> \o MulFrom(x, k, j + 1, prod \div Base)

\* x * k for a small natural k
BigMulSmall(x, k) == MulFrom(x, k, 1, 0)

RECURSIVE SmallBitLength(_)
SmallBitLength(n) == IF n = 0 THEN 0 ELSE 1 + SmallBitLength(n \div 2)

\* number of bits up to the most significant 1
BitLength(x) ==
    IF \A j \in 1..NumLimbs : x[j] = 0 THEN 0
    ELSE LET top == CHOOSE j \in 1..NumLimbs :
                        x[j] # 0 /\ \A k \in (j + 1)..NumLimbs : x[k] = 0
         IN LimbBits * (top - 1) + SmallBitLength(x[top])

\* bit g of x, bit 0 being the least significant
Bit(x, g) == (x[(g \div LimbBits) + 1] \div Pow2(g % LimbBits)) % 2

\* some bit of x below bit g is 1
AnyBitBelow(x, g) ==
    \/ \E j \in 1..(g \div LimbBits) : x[j] # 0
    \/ x[(g \div LimbBits) + 1] % Pow2(g % LimbBits) # 0

\* x with the bits below bit g cleared
ClearBelow(x, g) ==
    LET q == g \div LimbBits
    IN Zeros(q) \o <<x[q + 1] - (x[q + 1] % Pow2(g % LimbBits))>>
                \o SubSeq(x, q + 2, NumLimbs)

\* the value 2^g
BigBit(g) ==
    LET q == g \div LimbBits
    IN Zeros(q) \o <<Pow2(g % LimbBits)>> \o Zeros(NumLimbs - q - 1)

\* The float nearest to x (+ a non-zero amount below the last bit when sticky):
\* MantBits significant bits, ties to even
RoundToDouble(x, sticky) ==
    LET len == BitLength(x)
        cut == len - MantBits          \* number of low bits that do not fit
    IN IF cut <= 0 THEN x
       ELSE LET guard == Bit(x, cut - 1)
                rest == sticky \/ (cut >= 2 /\ AnyBitBelow(x, cut - 1))
                odd == Bit(x, cut) = 1
                kept == ClearBelow(x, cut)
            IN IF guard = 1 /\ (rest \/ odd) THEN BigAdd(kept, BigBit(cut)) ELSE kept

\* the m fraction limbs of r / d for r < d, least significant first
RECURSIVE DivLimbs(_, _, _)
DivLimbs(r, d, m) ==
    IF m = 0 THEN <<>>
    ELSE DivLimbs((r * Base) % d, d, m - 1) \o <<(r * Base) \div d>>

\* the remainder left after those m limbs
RECURSIVE DivRem(_, _, _)
DivRem(r, d, m) == IF m = 0 THEN r ELSE DivRem((r * Base) % d, d, m - 1)

\* i / d on two ints (true division): the float nearest to the quotient
FloatDiv(i, d) ==
    RoundToDouble(DivLimbs(i % d, d, FracLimbs) \o <<i \div d>>,
                  DivRem(i % d, d, FracLimbs) # 0)

\* x * k on a float and a non-negative int
FloatMulInt(x, k) == RoundToDouble(BigMulSmall(x, k), FALSE)

\* int(x): the integer part
IntPart(x) == x[NumLimbs]

\* x - int(x)
FracPart(x) == RoundToDouble(SubSeq(x, 1, FracLimbs) \o <<0>>, FALSE)

\* int(c + frac * diff) for ints c, diff and a float frac
IntOfAddMul(c, frac, diff) ==
    LET mag == FloatMulInt(frac, IF diff < 0 THEN 0 - diff ELSE diff)
        cf == BigFromInt(c)
    IN IF diff >= 0 THEN IntPart(RoundToDouble(BigAdd(cf, mag), FALSE))
       ELSE IF BigLess(cf, mag)
       THEN 0 - IntPart(RoundToDouble(BigSub(mag, cf), FALSE))
       ELSE IntPart(RoundToDouble(BigSub(cf, mag), FALSE))

----------------------------------------------------------------------------
(* colors.py: color_range_from_scale *)

MaxSteps == 12      \* steps arguments range over 0..MaxSteps

HexDigits == <<"0", "1", "2", "3", "4", "5", "6", "7", "8", "9",
               "a", "b", "c", "d", "e", "f">>
HexDigitsUpper == <<"0", "1", "2", "3", "4", "5", "6", "7", "8", "9",
                    "A", "B", "C", "D", "E", "F">>

\* value of one hexadecimal digit, either case
HexDigitValue(c) ==
    (CHOOSE k \in 1..16 : HexDigits[k] = c \/ HexDigitsUpper[k] = c) - 1

\* int(h, 16) on a string of hexadecimal digits
RECURSIVE HexValue(_)
HexValue(h) ==
    IF Len(h) = 0 THEN 0
    ELSE 16 * HexValue(SubSeq(h, 1, Len(h) - 1)) + HexDigitValue(SubSeq(h, Len(h), Len(h)))

\* hex_str.lstrip('#')
RECURSIVE lstrip_hash(_)
lstrip_hash(h) ==
    IF Len(h) > 0 /\ SubSeq(h, 1, 1) = "#" THEN lstrip_hash(SubSeq(h, 2, Len(h))) ELSE h

\* _hex_to_rgb
hex_to_rgb(hex_str) ==
    LET h == lstrip_hash(hex_str)
    IN <<HexValue(SubSeq(h, 1, 2)), HexValue(SubSeq(h, 3, 4)), HexValue(SubSeq(h, 5, 6))>>

\* variant: the fallback table is another palette's
table_name_plasma(scale_name) ==
    IF scale_name \notin DOMAIN SCALE_COLORS THEN "plasma" ELSE scale_name

\* the name whose table is used: a registry name without a table falls back
table_name(scale_name) ==
    IF scale_name \notin DOMAIN SCALE_COLORS THEN "viridis" ELSE scale_name

\* variant: a single step sampled at the upper end of the range
sample_color_from_end(colors, steps, i) ==
    LET n == Len(colors)
        t == IF steps > 1 THEN FloatDiv(i, steps - 1) ELSE BigFromInt(1)
        idx == FloatMulInt(t, n - 1)
        lo == IntPart(idx)
        hi == IF lo + 1 < n - 1 THEN lo + 1 ELSE n - 1
        frac == FracPart(idx)
        c1 == hex_to_rgb(colors[lo + 1])
        c2 == hex_to_rgb(colors[hi + 1])
        r == IntOfAddMul(c1[1], frac, c2[1] - c1[1])
        g == IntOfAddMul(c1[2], frac, c2[2] - c1[2])
        b == IntOfAddMul(c1[3], frac, c2[3] - c1[3])
    IN <<r, g, b>>

\* variant: interpolation started from the upper control point
sample_color_extrapolate(colors, steps, i) ==
    LET n == Len(colors)
        t == IF steps > 1 THEN FloatDiv(i, steps - 1) ELSE BigFromInt(0)
        idx == FloatMulInt(t, n - 1)
        lo == IntPart(idx)
        hi == IF lo + 1 < n - 1 THEN lo + 1 ELSE n - 1
        frac == FracPart(idx)
        c1 == hex_to_rgb(colors[lo + 1])
        c2 == hex_to_rgb(colors[hi + 1])
        r == IntOfAddMul(c2[1], frac, c2[1] - c1[1])
        g == IntOfAddMul(c2[2], frac, c2[2] - c1[2])
        b == IntOfAddMul(c2[3], frac, c2[3] - c1[3])
    IN <<r, g, b>>

\* variant: the lower control point is taken without interpolating
sample_color_nearest(colors, steps, i) ==
    LET n == Len(colors)
        t == IF steps > 1 THEN FloatDiv(i, steps - 1) ELSE BigFromInt(0)
        idx == FloatMulInt(t, n - 1)
        lo == IntPart(idx)
    IN hex_to_rgb(colors[lo + 1])

\* one pass of the loop body: the colour appended for index i
sample_color(colors, steps, i) ==
    LET n == Len(colors)
        t == IF steps > 1 THEN FloatDiv(i, steps - 1) ELSE BigFromInt(0)
        idx == FloatMulInt(t, n - 1)
        lo == IntPart(idx)
        hi == IF lo + 1 < n - 1 THEN lo + 1 ELSE n - 1
        frac == FracPart(idx)
        c1 == hex_to_rgb(colors[lo + 1])
        c2 == hex_to_rgb(colors[hi + 1])
        r == IntOfAddMul(c1[1], frac, c2[1] - c1[1])
        g == IntOfAddMul(c1[2], frac, c2[2] - c1[2])
        b == IntOfAddMul(c1[3], frac, c2[3] - c1[3])
    IN <<r, g, b>>

\* result[::-1]
Reversed(seq) == [k \in 1..Len(seq) |-> seq[Len(seq) + 1 - k]]

\* variant: reverse samples the reversed table instead of reversing the list
sample_list_reverse_table(scale_name, steps, reverse_arg) ==
    LET table == SCALE_COLORS[table_name(scale_name)]
        colors == IF reverse_arg THEN Reversed(table) ELSE table
        result == [k \in 1..(IF steps > 0 THEN steps ELSE 0) |->
                      sample_color(colors, steps, k - 1)]
    IN result

\* the list the function returns when it does not raise
sample_list(scale_name, steps, reverse_arg) ==
    LET colors == SCALE_COLORS[table_name(scale_name)]
        result == [k \in 1..(IF steps > 0 THEN steps ELSE 0) |->
                      sample_color(colors, steps, k - 1)]
    IN IF reverse_arg THEN Reversed(result) ELSE result

\* the guard that raises ValueError
sample_unknown(scale_name) ==
    scale_name \notin DOMAIN SCALE_COLORS /\ ~InRegistry(scale_name)

\* one call: the arguments are those drawn in the initial state
color_range_from_scale ==
    /\ ~sample_call.called
    /\ UNCHANGED notSample
    /\ sample_call' = [sample_call EXCEPT !.called = TRUE]
    /\ IF sample_unknown(sample_call.scale_name)
       THEN sample_ret' = [kind |-> "ValueError", v |-> <<>>]
       ELSE sample_ret' = [kind |-> "list",
                           v |-> sample_list(sample_call.scale_name,
                                             sample_call.steps, sample_call.reverse)]

StepsInputs == 0..MaxSteps

InitSample ==
    /\ self = NoObject
    /\ ret = NoRet
    /\ op = NoCall
    /\ hist = NoHist
    /\ sample_call \in [scale_name : AllNameInputs, steps : StepsInputs,
                        reverse : BOOLEAN, called : {FALSE}]
    /\ sample_ret = NoSampleRet
    /\ ColorIdle
    /\ LayerIdle
    /\ StyleIdle
    /\ FnIdle
    /\ ReleaseIdle

NextSample == color_range_from_scale

SpecSample == InitSample /\ [][NextSample]_vars

----------------------------------------------------------------------------
(* Reading a returned string back, as its consumer does *)

StartsWith(s, prefix) ==
    Len(s) >= Len(prefix) /\ SubSeq(s, 1, Len(prefix)) = prefix

EndsWith(s, suffix) ==
    Len(s) >= Len(suffix) /\ SubSeq(s, Len(s) - Len(suffix) + 1, Len(s)) = suffix

Occurs(s, sub, i) ==
    i + Len(sub) - 1 <= Len(s) /\ SubSeq(s, i, i + Len(sub) - 1) = sub

Contains(s, sub) == \E i \in 1..Len(s) : Occurs(s, sub, i)

\* the pieces of s between the occurrences of sep
RECURSIVE Split(_, _)
Split(s, sep) ==
    IF ~Contains(s, sep) THEN <<s>>
    ELSE LET i == CHOOSE k \in 1..Len(s) :
                    Occurs(s, sep, k) /\ \A j \in 1..(k - 1) : ~Occurs(s, sep, j)
         IN <<SubSeq(s, 1, i - 1)>> \o Split(SubSeq(s, i + Len(sep), Len(s)), sep)

\* the parameters between "@@scale(" and ")"
ParamsOf(r) == Split(SubSeq(r, Len("@@scale(") + 1, Len(r) - 1), ", ")

\* the palette name of a scale token: the part before the first ':'
TokenName(tok) == Split(tok, ":")[1]

RegistryNames == { AVAILABLE_SCALES[i] : i \in 1..Len(AVAILABLE_SCALES) }

DomainSet(s) == s.min # None /\ s.max # None

----------------------------------------------------------------------------
(* layers/base.py: normalize_color and _parse_hex_color *)

MaxHexLen == 8        \* string arguments have 0..MaxHexLen characters after the marker
MaxComponents == 5    \* list and tuple arguments have 0..MaxComponents elements

\* Python values handed to the layer helpers: kind "str" with the string s,
\* "list" / "tuple" with the elements v, "int" with the number in v[1], "None"
PyStr(s) == [kind |-> "str", s |-> s, v |-> <<>>]
PyList(v) == [kind |-> "list", s |-> "", v |-> v]
PyTuple(v) == [kind |-> "tuple", s |-> "", v |-> v]
PyNum(n) == [kind |-> "int", s |-> "", v |-> <<n>>]
PyNone == [kind |-> "None", s |-> "", v |-> <<>>]

\* outcomes of normalize_color: the returned list, or the exception raised
Returned(v) == [kind |-> "list", msg |-> "", v |-> v]
Raised(exc, msg) == [kind |-> exc, msg |-> msg, v |-> <<>>]

Whitespace == {" ", "\t", "\n"}

RECURSIVE lstrip(_)
lstrip(s) ==
    IF Len(s) > 0 /\ SubSeq(s, 1, 1) \in Whitespace THEN lstrip(SubSeq(s, 2, Len(s))) ELSE s

RECURSIVE rstrip(_)
rstrip(s) ==
    IF Len(s) > 0 /\ SubSeq(s, Len(s), Len(s)) \in Whitespace
    THEN rstrip(SubSeq(s, 1, Len(s) - 1)) ELSE s

\* str.strip()
strip(s) == rstrip(lstrip(s))

IsHexDigit(c) == \E k \in 1..16 : HexDigits[k] = c \/ HexDigitsUpper[k] = c

\* int(x, 16) on a slice x of at most two characters: surrounding whitespace
\* is dropped, one sign is allowed, the rest must be hexadecimal digits (a
\* slice this short has no room for a "0x" prefix or an underscore followed
\* by digits); ok is FALSE where int() raises ValueError
int_base16(x) ==
    LET t == strip(x)
        signed == Len(t) > 0 /\ SubSeq(t, 1, 1) \in {"+", "-"}
        digits == IF signed THEN SubSeq(t, 2, Len(t)) ELSE t
        valid == /\ Len(digits) > 0
                 /\ \A k \in 1..Len(digits) : IsHexDigit(SubSeq(digits, k, k))
    IN IF ~valid THEN [ok |-> FALSE, v |-> 0]
       ELSE [ok |-> TRUE,
             v |-> IF SubSeq(t, 1, 1) = "-" THEN 0 - HexValue(digits)
                   ELSE HexValue(digits)]

\* ''.join(c * 2 for c in hex_str)
RECURSIVE double_chars(_)
double_chars(h) ==
    IF Len(h) = 0 THEN ""
    ELSE SubSeq(h, 1, 1) \o SubSeq(h, 1, 1) \o double_chars(SubSeq(h, 2, Len(h)))

\* variant: the short form is repeated as a whole, not digit by digit
expand_short_repeated(h) ==
    IF Len(h) = 3 THEN h \o h
    ELSE IF Len(h) = 4 THEN h \o h
    ELSE h

\* variant: only the three-character short form is expanded
expand_short_rgb_only(h) ==
    IF Len(h) = 3 THEN double_chars(h) ELSE h

\* the #RGB -> #RRGGBB and #RGBA -> #RRGGBBAA branches
expand_short(h) ==
    IF Len(h) = 3 THEN double_chars(h)
    ELSE IF Len(h) = 4 THEN double_chars(h)
    ELSE h

\* variant: the slices start at consecutive characters and overlap
hex_channels_overlapping(h, offsets) ==
    [k \in 1..Len(offsets) |-> int_base16(SubSeq(h, k, k + 1))]

\* [int(hex_str[i:i+2], 16) for i in offsets]
hex_channels(h, offsets) ==
    [k \in 1..Len(offsets) |-> int_base16(SubSeq(h, offsets[k] + 1, offsets[k] + 2))]

\* variant: the marker is not checked
missing_hash_unchecked(h) == FALSE

\* not hex_str.startswith('#')
missing_hash(h) == ~StartsWith(h, "#")

\* _parse_hex_color
parse_hex_color(hex_str) ==
    LET stripped == strip(hex_str)
        h == expand_short(SubSeq(stripped, 2, Len(stripped)))
        parsed == IF Len(h) = 6 THEN hex_channels(h, <<0, 2, 4>>)
                  ELSE IF Len(h) = 8 THEN hex_channels(h, <<0, 2, 4, 6>>)
                  ELSE <<>>
    IN IF missing_hash(stripped)
       THEN Raised("ValueError", "Hex color must start with '#'")
       ELSE IF Len(h) \notin {6, 8}
       THEN Raised("ValueError", "Invalid hex color format")
       ELSE IF \E k \in 1..Len(parsed) : ~parsed[k].ok
       THEN Raised("ValueError", "invalid literal for int() with base 16")
       ELSE Returned([k \in 1..Len(parsed) |-> parsed[k].v])

\* variant: the components are clamped to a byte
list_copy_clamped(v) ==
    [k \in 1..Len(v) |-> IF v[k] < 0 THEN 0 ELSE IF v[k] > 255 THEN 255 ELSE v[k]]

\* list(color)
list_copy(v) == [k \in 1..Len(v) |-> v[k]]

\* normalize_color: what the call returns or raises
normalize_color(color) ==
    IF color.kind = "str" THEN parse_hex_color(color.s)
    ELSE IF color.kind \in {"list", "tuple"}
    THEN IF Len(color.v) \notin {3, 4}
         THEN Raised("ValueError", "Color must have 3 or 4 components")
         ELSE Returned(list_copy(color.v))
    ELSE Raised("TypeError", "Color must be a list, tuple, or hex string")

\* one call: the argument is the one drawn in the initial state
normalize_color_call ==
    /\ ~color_call.called
    /\ UNCHANGED notColor
    /\ color_call' = [color_call EXCEPT !.called = TRUE]
    /\ color_ret' = normalize_color(color_call.arg)

\* the characters a string argument is made of: two digits and a sign
HexAlphabet == {"8", "f", "-"}

RECURSIVE BodiesOfLen(_)
BodiesOfLen(n) ==
    IF n = 0 THEN {""}
    ELSE { b \o c : b \in BodiesOfLen(n - 1), c \in HexAlphabet }

\* str.upper() on the characters of HexAlphabet
RECURSIVE upper(_)
upper(s) ==
    IF Len(s) = 0 THEN ""
    ELSE (IF SubSeq(s, 1, 1) = "f" THEN "F" ELSE SubSeq(s, 1, 1))
         \o upper(SubSeq(s, 2, Len(s)))

\* the bodies of at most max_len characters, in lower and in upper case
BodyInputs(max_len) ==
    LET lower == UNION { BodiesOfLen(n) : n \in 0..max_len }
    IN lower \cup { upper(b) : b \in lower }

\* with and without the marker, with and without surrounding whitespace
StringInputs(max_len) ==
    { lead \o hash \o body \o trail :
        lead \in {"", " "}, hash \in {"", "#"}, body \in BodyInputs(max_len),
        trail \in {"", " "} }

ElementInputs == {-1, 128, 256}

SequenceInputs(max_n) == UNION { [1..n -> ElementInputs] : n \in 0..max_n }

ColorInputs(max_len, max_n) ==
    { PyStr(str_arg) : str_arg \in StringInputs(max_len) }
        \cup { PyList(v) : v \in SequenceInputs(max_n) }
        \cup { PyTuple(v) : v \in SequenceInputs(max_n) }
        \cup { PyNum(12345), PyNone }

InitColor ==
    /\ ScaleIdle
    /\ SampleIdle
    /\ LayerIdle
    /\ StyleIdle
    /\ FnIdle
    /\ ReleaseIdle
    /\ color_call \in [arg : ColorInputs(MaxHexLen, MaxComponents), called : {FALSE}]
    /\ color_ret = NoColorRet

NextColor == normalize_color_call

SpecColor == InitColor /\ [][NextColor]_vars

----------------------------------------------------------------------------
(* layers/base.py: class BaseLayer; layers/core.py: its subclasses *)

LowerLetters == <<"a", "b", "c", "d", "e", "f", "g", "h", "i", "j", "k", "l", "m",
                  "n", "o", "p", "q", "r", "s", "t", "u", "v", "w", "x", "y", "z">>
UpperLetters == <<"A", "B", "C", "D", "E", "F", "G", "H", "I", "J", "K", "L", "M",
                  "N", "O", "P", "Q", "R", "S", "T", "U", "V", "W", "X", "Y", "Z">>

IsLower(c) == \E k \in 1..26 : LowerLetters[k] = c
IsUpper(c) == \E k \in 1..26 : UpperLetters[k] = c
IsLetter(c) == IsLower(c) \/ IsUpper(c)

char_upper(c) ==
    IF IsLower(c) THEN UpperLetters[CHOOSE k \in 1..26 : LowerLetters[k] = c] ELSE c
char_lower(c) ==
    IF IsUpper(c) THEN LowerLetters[CHOOSE k \in 1..26 : UpperLetters[k] = c] ELSE c

\* str.title(): a letter that follows a letter is put in lower case, any
\* other letter in upper case
RECURSIVE title_from(_, _)
title_from(x, after_letter) ==
    IF Len(x) = 0 THEN ""
    ELSE LET c == SubSeq(x, 1, 1)
         IN (IF after_letter THEN char_lower(c) ELSE char_upper(c))
               \o title_from(SubSeq(x, 2, Len(x)), IsLetter(c))

title(x) == title_from(x, FALSE)

\* to_camel_case
to_camel_case(snake_str) ==
    LET components == Split(snake_str, "_")
    IN components[1]
          \o join("", [k \in 1..(Len(components) - 1) |-> title(components[k + 1])])

is_accessor_string(value) == value.kind = "str" /\ StartsWith(value.s, "@@=")

\* variant: only a '@@scale:' prefix is recognised
is_scale_accessor_colon(value) == value.kind = "str" /\ StartsWith(value.s, "@@scale:")

is_scale_accessor(value) == value.kind = "str" /\ StartsWith(value.s, "@@scale(")

\* _layer_type and _color_props of the layer classes
LayerClasses == {"GeoJsonLayer", "PathLayer"}

color_props(cls) ==
    IF cls = "GeoJsonLayer"
    THEN {"get_fill_color", "get_line_color", "get_point_color", "get_elevation_color"}
    ELSE {"get_color"}

\* the property names and values the layers are given
KeyInputs == {"get_fill_color", "get_line_color", "get_color", "getColor"}

ValueInputs ==
    { PyNone,
      PyStr("#F80"), PyStr("#ff8000c8"), PyStr("red"),
      PyStr("@@=properties.color"), PyStr("@@scale(viridis, value)"),
      PyTuple(<<255, 128, 0>>) }

IdInputs == {"geojson", "paths"}

\* the keys _props may hold; a key that was never set holds Absent
CamelKeys == { to_camel_case(k) : k \in KeyInputs }
Absent == [kind |-> "absent", s |-> "", v |-> <<>>]

\* to_camel_case of each of these names, computed once
CamelOf == [k \in KeyInputs |-> to_camel_case(k)]

RetNone == [kind |-> "None", msg |-> "", d |-> <<>>]

\* BaseLayer.__init__(id) as the subclasses call it: no property yet
BaseLayer_init(cls, id) ==
    /\ ~layer.constructed
    /\ UNCHANGED notLayer
    /\ layer' = [constructed |-> TRUE, cls |-> cls, id |-> id,
                 props |-> [k \in CamelKeys |-> Absent]]
    /\ layer_call' = [name |-> "__init__", key |-> "", value |-> PyNone]
    /\ layer_ret' = RetNone
    /\ layer_hist' = {}

\* variant: a '@@scale(' string is not exempted from normalisation
is_color_value_no_scale(cls, key, value) ==
    key \in color_props(cls) /\ ~is_accessor_string(value)

\* the test that sends a value through normalize_color
is_color_value(cls, key, value) ==
    key \in color_props(cls) /\ ~is_accessor_string(value) /\ ~is_scale_accessor(value)

\* BaseLayer._set_prop
set_prop(key, value) ==
    /\ layer.constructed
    /\ UNCHANGED notLayer
    /\ layer_call' = [name |-> "_set_prop", key |-> key, value |-> value]
    /\ IF value = PyNone
       THEN layer' = layer /\ layer_ret' = RetNone /\ layer_hist' = layer_hist
       ELSE LET camel_key == CamelOf[key]
                normalized == normalize_color(value)
            IN IF is_color_value(layer.cls, key, value)
               THEN IF normalized.kind = "list"
                    THEN /\ layer' = [layer EXCEPT !.props[camel_key] = PyList(normalized.v)]
                         /\ layer_ret' = RetNone
                         /\ layer_hist' = layer_hist \cup {key}
                    ELSE /\ layer' = layer
                         /\ layer_ret' = [kind |-> normalized.kind,
                                          msg |-> normalized.msg, d |-> <<>>]
                         /\ layer_hist' = layer_hist
               ELSE /\ layer' = [layer EXCEPT !.props[camel_key] = value]
                    /\ layer_ret' = RetNone
                    /\ layer_hist' = layer_hist \cup {key}

\* variant: the keys are emitted under the names they were given
to_dict_result_snake(l) ==
    LET given == { k \in KeyInputs : l.props[CamelOf[k]] # Absent }
    IN [k \in {"@@type", "id"} \cup given |->
           IF k \in given THEN l.props[CamelOf[k]]
           ELSE IF k = "@@type" THEN PyStr(l.cls) ELSE PyStr(l.id)]

\* the dict to_dict builds: '@@type' and 'id', updated with _props
to_dict_result(l) ==
    LET present == { k \in DOMAIN l.props : l.props[k] # Absent }
    IN [k \in {"@@type", "id"} \cup present |->
           IF k \in present THEN l.props[k]
           ELSE IF k = "@@type" THEN PyStr(l.cls) ELSE PyStr(l.id)]

\* BaseLayer.to_dict
to_dict ==
    /\ layer.constructed
    /\ UNCHANGED notLayer
    /\ UNCHANGED <<layer, layer_hist>>
    /\ layer_call' = [name |-> "to_dict", key |-> "", value |-> PyNone]
    /\ layer_ret' = [kind |-> "dict", msg |-> "", d |-> to_dict_result(layer)]

InitLayer ==
    /\ ScaleIdle
    /\ SampleIdle
    /\ ColorIdle
    /\ LayerIdle
    /\ StyleIdle
    /\ FnIdle
    /\ ReleaseIdle

NextLayer ==
    \/ \E cls \in LayerClasses, id \in IdInputs : BaseLayer_init(cls, id)
    \/ \E key \in KeyInputs, value \in ValueInputs : set_prop(key, value)
    \/ to_dict

SpecLayer == InitLayer /\ [][NextLayer]_vars

----------------------------------------------------------------------------
(* A ColorScale accessor string used as a property of a layer *)

\* layer._set_prop(key, scale.accessor(path)): the string the last accessor()
\* call returned is given to the layer under the name key
set_prop_accessor(key) ==
    /\ op.name = "accessor" /\ ret.kind = "str"
    /\ set_prop(key, PyStr(ret.s))

ScaleKeyInputs == {"get_fill_color", "get_color"}

NextAccessorLayer ==
    \/ Construct("viridis")
    \/ domain(PyInt(0), PyInt(1))
    \/ alpha(PyInt(128))
    \/ reverse
    \/ log
    \/ sqrt
    \/ accessor("value")
    \/ \E cls \in LayerClasses : BaseLayer_init(cls, "geojson")
    \/ \E key \in ScaleKeyInputs : set_prop_accessor(key)
    \/ to_dict

SpecAccessorLayer == InitScale /\ [][NextAccessorLayer]_vars

----------------------------------------------------------------------------
(* layers/base.py: process_layers *)

MaxLayers == 3      \* sequences passed to process_layers have 0..MaxLayers elements

\* elements of such a sequence: a layer object, a dict, or anything else
NoLayerObject == [constructed |-> FALSE, cls |-> "", id |-> "", props |-> <<>>]
LayerElement(l) == [kind |-> "layer", layer |-> l, d |-> <<>>, s |-> ""]
DictElement(d) == [kind |-> "dict", layer |-> NoLayerObject, d |-> d, s |-> ""]
OtherElement(s) == [kind |-> "str", layer |-> NoLayerObject, d |-> <<>>, s |-> s]

\* GeoJsonLayer(id='geo', data=None, get_fill_color='#F80')
GeoLayerObject ==
    [constructed |-> TRUE, cls |-> "GeoJsonLayer", id |-> "geo",
     props |-> [k \in CamelKeys |->
                   IF k = "getFillColor" THEN PyList(<<255, 136, 0>>) ELSE Absent]]

\* PathLayer(id='paths', data=None, get_color='@@=properties.color')
PathLayerObject ==
    [constructed |-> TRUE, cls |-> "PathLayer", id |-> "paths",
     props |-> [k \in CamelKeys |->
                   IF k = "getColor" THEN PyStr("@@=properties.color") ELSE Absent]]

\* {'@@type': 'TileLayer', 'id': 'base', 'data': 'url'}
TileDict == [k \in {"@@type", "id", "data"} |->
                IF k = "@@type" THEN PyStr("TileLayer")
                ELSE IF k = "id" THEN PyStr("base") ELSE PyStr("url")]

ElementInputsOfLayers ==
    { LayerElement(GeoLayerObject), LayerElement(PathLayerObject),
      DictElement(TileDict), DictElement(<<>>), OtherElement("not a layer") }

LayersInputs(max_n) == UNION { [1..n -> ElementInputsOfLayers] : n \in 0..max_n }

\* variant: an element that is neither a layer nor a dict is left out
process_layers_lenient(layers) ==
    IF layers.kind = "None" THEN [kind |-> "None", v |-> <<>>]
    ELSE LET kept == SelectSeq(layers.v, LAMBDA e : e.kind \in {"layer", "dict"})
         IN [kind |-> "list",
             v |-> [k \in 1..Len(kept) |->
                       IF kept[k].kind = "layer" THEN to_dict_result(kept[k].layer)
                       ELSE kept[k].d]]

\* process_layers: None for None, else the converted list, or TypeError at
\* the first element that is neither a BaseLayer nor a dict
process_layers(layers) ==
    IF layers.kind = "None" THEN [kind |-> "None", v |-> <<>>]
    ELSE IF \E k \in 1..Len(layers.v) : layers.v[k].kind \notin {"layer", "dict"}
    THEN [kind |-> "TypeError", v |-> <<>>]
    ELSE [kind |-> "list",
          v |-> [k \in 1..Len(layers.v) |->
                    IF layers.v[k].kind = "layer" THEN to_dict_result(layers.v[k].layer)
                    ELSE layers.v[k].d]]

\* one call: the argument is the one drawn in the initial state
process_layers_call ==
    /\ fn_call.name = "process_layers" /\ ~fn_call.called
    /\ UNCHANGED notFn
    /\ fn_call' = [fn_call EXCEPT !.called = TRUE]
    /\ fn_ret' = process_layers(fn_call.layers)

ProcessInputs(max_n) ==
    { [kind |-> "None", v |-> <<>>] }
        \cup { [kind |-> "list", v |-> v] : v \in LayersInputs(max_n) }

InitProcess ==
    /\ ScaleIdle
    /\ SampleIdle
    /\ ColorIdle
    /\ LayerIdle
    /\ StyleIdle
    /\ ReleaseIdle
    /\ fn_call \in [name : {"process_layers"}, layers : ProcessInputs(MaxLayers),
                     called : {FALSE}]
    /\ fn_ret = NoFnRet

NextProcess == process_layers_call

SpecProcess == InitProcess /\ [][NextProcess]_vars

----------------------------------------------------------------------------
(* maplibre/layers.py, maplibre/sources.py, maplibre/config.py *)

MaxMapLayers == 2   \* a MapLibreConfig is given 0..MaxMapLayers map layers

PyDict(d) == [kind |-> "dict", s |-> "", v |-> d]
PyBool(b) == [kind |-> "bool", s |-> "", v |-> <<b>>]

\* Python's truth value of a value
truthy(x) ==
    CASE x.kind = "None" -> FALSE
      [] x.kind = "str" -> x.s # ""
      [] x.kind = "int" -> x.v[1] # 0
      [] x.kind = "bool" -> x.v[1]
      [] x.kind = "dict" -> DOMAIN x.v # {}
      [] OTHER -> Len(x.v) > 0

\* d[key] = value on a dict
dict_set(d, key, value) ==
    [k \in DOMAIN d \cup {key} |-> IF k = key THEN value ELSE d[k]]

\* _layer_type of each style layer class
MapLayerClasses ==
    {"FillLayer", "LineLayer", "RasterLayer", "CircleLayer", "SymbolLayer",
     "FillExtrusionLayer"}
layer_type ==
    [c \in MapLayerClasses |->
        CASE c = "FillLayer" -> "fill"
          [] c = "LineLayer" -> "line"
          [] c = "RasterLayer" -> "raster"
          [] c = "CircleLayer" -> "circle"
          [] c = "SymbolLayer" -> "symbol"
          [] c = "FillExtrusionLayer" -> "fill-extrusion"]

\* a style layer object: its attributes after construction, layout and paint
\* given by their contents
MapLayerObject(cls, id, source, source_layer, min_zoom, max_zoom, filter, layout, paint, metadata) ==
    [cls |-> cls, id |-> id, source |-> source, source_layer |-> source_layer,
     min_zoom |-> min_zoom, max_zoom |-> max_zoom, filter |-> filter,
     layout |-> layout, paint |-> paint, metadata |-> metadata]

\* BaseMapLibreLayer.to_dict
BaseMapLibreLayer_to_dict(l) ==
    LET keys == {"id", "type", "source"}
                 \cup (IF truthy(l.source_layer) THEN {"source-layer"} ELSE {})
                 \cup (IF l.min_zoom # PyNone THEN {"minzoom"} ELSE {})
                 \cup (IF l.max_zoom # PyNone THEN {"maxzoom"} ELSE {})
                 \cup (IF truthy(l.filter) THEN {"filter"} ELSE {})
                 \cup (IF DOMAIN l.layout # {} THEN {"layout"} ELSE {})
                 \cup (IF DOMAIN l.paint # {} THEN {"paint"} ELSE {})
                 \cup (IF truthy(l.metadata) THEN {"metadata"} ELSE {})
    IN [k \in keys |->
           CASE k = "id" -> PyStr(l.id)
             [] k = "type" -> PyStr(layer_type[l.cls])
             [] k = "source" -> PyStr(l.source)
             [] k = "source-layer" -> l.source_layer
             [] k = "minzoom" -> l.min_zoom
             [] k = "maxzoom" -> l.max_zoom
             [] k = "filter" -> l.filter
             [] k = "layout" -> PyDict(l.layout)
             [] k = "paint" -> PyDict(l.paint)
             [] k = "metadata" -> l.metadata]

\* a RasterSource object: its attributes after construction
RasterSourceObject(tiles, tile_size, min_zoom, max_zoom, bounds, attribution, scheme) ==
    [tiles |-> tiles, tile_size |-> tile_size, min_zoom |-> min_zoom,
     max_zoom |-> max_zoom, bounds |-> bounds, attribution |-> attribution,
     scheme |-> scheme]

\* RasterSource.to_dict
RasterSource_to_dict(src) ==
    LET keys == {"type", "tiles", "tileSize"}
                 \cup (IF src.min_zoom # PyNum(0) THEN {"minzoom"} ELSE {})
                 \cup (IF src.max_zoom # PyNum(22) THEN {"maxzoom"} ELSE {})
                 \cup (IF truthy(src.bounds) THEN {"bounds"} ELSE {})
                 \cup (IF truthy(src.attribution) THEN {"attribution"} ELSE {})
                 \cup (IF src.scheme # PyStr("xyz") THEN {"scheme"} ELSE {})
    IN [k \in keys |->
           CASE k = "type" -> PyStr("raster")
             [] k = "tiles" -> src.tiles
             [] k = "tileSize" -> src.tile_size
             [] k = "minzoom" -> src.min_zoom
             [] k = "maxzoom" -> src.max_zoom
             [] k = "bounds" -> src.bounds
             [] k = "attribution" -> src.attribution
             [] k = "scheme" -> src.scheme]

----------------------------------------------------------------------------
(* Properties of the ColorScale builder *)

\* C1: after any sequence of builder calls, failing ones included, at most
\* one of the log and sqrt modes is active, the active one is the one whose
\* method was called most recently, and a string returned by accessor()
\* never contains both ":log" and ":sqrt".
C1_LogSqrtExclusive ==
    self # NoObject =>
        /\ ~(self.log /\ self.sqrt)
        /\ self.log <=> hist.mode = "log"
        /\ self.sqrt <=> hist.mode = "sqrt"
        /\ ret.kind = "str" => ~(Contains(ret.s, ":log") /\ Contains(ret.s, ":sqrt"))

\* log() then sqrt() were called and the accessor shows sqrt only
C1_Witness ==
    /\ self # NoObject
    /\ hist.both /\ hist.mode = "sqrt"
    /\ op.name = "accessor"
    /\ Contains(ret.s, ":sqrt") /\ ~Contains(ret.s, ":log")

\* C2: domain(min, max) fails whenever min >= max, equality included; a
\* failed call leaves every field of the builder as it was; a successful call
\* stores min and max over any prior domain and changes nothing else.
C2_DomainStep ==
    op'.name = "domain" =>
        LET a == op'.args[1]
            b == op'.args[2]
        IN /\ (a.kind = "int" /\ b.kind = "int" /\ a.v >= b.v) => ret' = RetValueError
           /\ ret' \in {RetValueError, RetSelf}
           /\ ret' = RetValueError => self' = self
           /\ ret' = RetSelf => self' = [self EXCEPT !.min = a, !.max = b]

C2_DomainValidated == [][C2_DomainStep]_vars

\* domain(n, n) has failed on a builder that keeps its earlier domain (0, 1)
C2_Witness ==
    /\ op.name = "domain" /\ ret = RetValueError
    /\ op.args[1] = op.args[2] /\ op.args[1].kind = "int"
    /\ self.min = PyInt(0) /\ self.max = PyInt(1)

\* C3: alpha(value) succeeds exactly for 0 <= value <= 255; a rejected call
\* leaves every field as it was; a successful call stores the value over any
\* prior alpha and changes nothing else.
C3_AlphaStep ==
    op'.name = "alpha" =>
        LET a == op'.args[1]
        IN /\ ret' = RetSelf <=> (a.kind = "int" /\ a.v \in 0..255)
           /\ ret' \in {RetValueError, RetSelf}
           /\ ret' = RetValueError => self' = self
           /\ ret' = RetSelf => self' = [self EXCEPT !.alpha = a]

C3_AlphaValidated == [][C3_AlphaStep]_vars

\* alpha(256) has been rejected on a builder that keeps its earlier alpha 255
C3_Witness ==
    /\ op.name = "alpha" /\ ret = RetValueError
    /\ op.args[1] = PyInt(256)
    /\ self.alpha = PyInt(255)

\* C4: in every state of a builder the domain is entirely unset or set with
\* min < max, the alpha is unset or an integer in 0..255, and the palette
\* name is in AVAILABLE_SCALES.
C4_BuilderInvariant ==
    self # NoObject =>
        /\ \/ self.min = None /\ self.max = None
           \/ /\ self.min.kind = "int" /\ self.max.kind = "int"
              /\ self.min.v < self.max.v
        /\ self.alpha = None \/ (self.alpha.kind = "int" /\ self.alpha.v \in 0..255)
        /\ self.scale_name \in RegistryNames

\* C5: accessor(path) returns "@@scale(" + parameters joined by ", " + ")";
\* the parameters are the scale token, the path, then min and max only if a
\* domain is set, then alpha only if a domain and an alpha are set; with
\* neither there are exactly the token and the path. Holds for min 0, alpha 0.
C5_AccessorParameters ==
    op.name = "accessor" =>
        LET path == op.args[1]
            p == ParamsOf(ret.s)
        IN /\ StartsWith(ret.s, "@@scale(") /\ EndsWith(ret.s, ")")
           /\ Len(p) >= 2 /\ p[2] = path
           /\ TokenName(p[1]) = self.scale_name
           /\ (DomainSet(self) /\ self.alpha # None) =>
                 p = <<p[1], path, str(self.min), str(self.max), str(self.alpha)>>
           /\ (DomainSet(self) /\ self.alpha = None) =>
                 p = <<p[1], path, str(self.min), str(self.max)>>
           /\ (~DomainSet(self) /\ self.alpha = None) => p = <<p[1], path>>

\* domain (0, 1) and alpha 0 are both serialised
C5_Witness ==
    /\ op.name = "accessor"
    /\ self.min = PyInt(0) /\ self.alpha = PyInt(0)
    /\ ret.s = "@@scale(OrRd, value, 0, 1, 0)"

\* C6: with an alpha and no domain, accessor(path) appends exactly three
\* parameters after the path: two empty strings and the alpha, giving
\* "@@scale(<token>, <path>, , , <alpha>)".
C6_AlphaWithoutDomain ==
    (op.name = "accessor" /\ ~DomainSet(self) /\ self.alpha # None) =>
        LET path == op.args[1]
            p == ParamsOf(ret.s)
        IN /\ Len(p) = 5
           /\ p[3] = "" /\ p[4] = "" /\ p[5] = str(self.alpha)
           /\ ret.s = "@@scale(" \o p[1] \o ", " \o path \o ", , , "
                          \o str(self.alpha) \o ")"

\* alpha 255 without a domain
C6_Witness ==
    /\ op.name = "accessor"
    /\ ~DomainSet(self)
    /\ ret.s = "@@scale(OrRd:log, value, , , 255)"

\* C7: the scale token is the palette name, then ":log" or ":sqrt" if that
\* mode is active, then ":reverse" if reverse() was called, whatever the order
\* of the calls; with no modifier it is the bare name, without a colon.
C7_TokenOrder ==
    op.name = "accessor" =>
        LET tok == ParamsOf(ret.s)[1]
        IN /\ tok = self.scale_name
                      \o (IF hist.mode = "log" THEN ":log"
                          ELSE IF hist.mode = "sqrt" THEN ":sqrt" ELSE "")
                      \o (IF hist.rev THEN ":reverse" ELSE "")
           /\ (hist.mode = "none" /\ ~hist.rev) => ~Contains(tok, ":")

\* reverse() was called before log(), and log still comes first
C7_Witness ==
    /\ op.name = "accessor"
    /\ hist.revFirst /\ hist.mode = "log"
    /\ ParamsOf(ret.s)[1] = "OrRd:log:reverse"

\* a fresh builder given the same name, domain, alpha and modifier calls
FreshConfigured(s, h) ==
    LET named == ColorScale_init(h.name)
        ranged == IF DomainSet(s) THEN [named EXCEPT !.min = s.min, !.max = s.max]
                  ELSE named
        faded == IF s.alpha # None THEN [ranged EXCEPT !.alpha = s.alpha] ELSE ranged
        moded == IF h.mode = "log" THEN log_fields(faded)
                 ELSE IF h.mode = "sqrt" THEN sqrt_fields(faded) ELSE faded
    IN IF h.rev THEN reverse_fields(moded) ELSE moded

\* C8: accessor(path) changes no field of the builder; the string returned
\* is the one a fresh builder configured identically returns for that path,
\* and two accessor calls in a row with the same path return the same string.
C8_AccessorStep ==
    op'.name = "accessor" =>
        /\ self' = self
        /\ ret' = RetStr(accessor_string(FreshConfigured(self, hist), op'.args[1]))
        /\ (op.name = "accessor" /\ op.args = op'.args) => ret' = ret

C8_AccessorPure == [][C8_AccessorStep]_vars

\* accessor() has been called with both paths on a fully configured builder
C8_Witness ==
    /\ op.name = "accessor"
    /\ Cardinality(hist.paths) = 2
    /\ DomainSet(self) /\ self.alpha # None /\ self.reverse

\* C9: ColorScale(name) fails exactly when name is not in AVAILABLE_SCALES;
\* every registry name, with or without a control-point table, is accepted
\* and serialised under its own name.
C9_ConstructorRegistry ==
    /\ op.name = "init" =>
          /\ ret = RetValueError <=> op.args[1] \notin RegistryNames
          /\ ret = RetValueError => self = NoObject
          /\ ret # RetValueError =>
                (self # NoObject /\ self.scale_name = op.args[1])
    /\ op.name = "accessor" => TokenName(ParamsOf(ret.s)[1]) = hist.name

\* a name without a control-point table is serialised under its own name
C9_Witness ==
    /\ op.name = "accessor"
    /\ hist.name = "PuBu" /\ hist.name \notin TableNames
    /\ ret.s = "@@scale(PuBu, value)"

----------------------------------------------------------------------------
(* Properties of color_range_from_scale *)

C11_ReverseIsMirror ==
    (/\ sample_call.called
     /\ sample_call.scale_name \in RegistryNames
     /\ sample_call.reverse) =>
        LET forward == sample_list(sample_call.scale_name, sample_call.steps, FALSE)
        IN /\ sample_ret.kind = "list"
           /\ Len(sample_ret.v) = Len(forward)
           /\ \A k \in 1..Len(forward) :
                 sample_ret.v[k] = forward[Len(forward) + 1 - k]

\* five colours of viridis reversed: the list runs from yellow to purple
C11_Witness ==
    /\ sample_call.called
    /\ sample_call.scale_name = "viridis" /\ sample_call.steps = 5
    /\ sample_call.reverse
    /\ sample_ret.v[1] = <<253, 231, 37>>
    /\ sample_ret.v[5] = <<68, 1, 84>>

\* C12: the call fails for a name outside AVAILABLE_SCALES; for a registry
\* name that has no control-point table it does not fail and returns what
\* 'viridis' returns for the same steps and reverse.
C12_ViridisFallback ==
    sample_call.called =>
        /\ sample_call.scale_name \notin RegistryNames =>
              sample_ret.kind = "ValueError"
        /\ sample_call.scale_name \in RegistryNames \ TableNames =>
              /\ sample_ret.kind = "list"
              /\ sample_ret.v = sample_list("viridis", sample_call.steps,
                                            sample_call.reverse)

\* 'PuBu' has no table: three steps give the three viridis colours
C12_Witness ==
    /\ sample_call.called
    /\ sample_call.scale_name = "PuBu" /\ sample_call.scale_name \notin TableNames
    /\ sample_call.steps = 3 /\ ~sample_call.reverse
    /\ sample_ret.v = <<(<<68, 1, 84>>), (<<34, 144, 139>>), (<<253, 231, 37>>)>>

\* C13: colours are returned only for a positive steps (a steps of 0 is not
\* rejected: it gives the empty list); for steps = 1 the result is a single
\* triple, the first control point of the table in use, whether reverse is
\* set or not.
C13_SingleStep ==
    (/\ sample_call.called
     /\ sample_call.scale_name \in RegistryNames) =>
        LET colors == SCALE_COLORS[IF sample_call.scale_name \in TableNames
                                   THEN sample_call.scale_name ELSE "viridis"]
            first == SubSeq(colors[1], 2, 7)
        IN /\ sample_ret.kind = "list"
           /\ sample_ret.v # <<>> <=> sample_call.steps >= 1
           /\ sample_call.steps = 1 =>
                 /\ Len(sample_ret.v) = 1
                 /\ sample_ret.v[1] = <<HexValue(SubSeq(first, 1, 2)),
                                        HexValue(SubSeq(first, 3, 4)),
                                        HexValue(SubSeq(first, 5, 6))>>

\* one step of 'plasma' reversed is its first control point #0d0887
C13_Witness ==
    /\ sample_call.called
    /\ sample_call.scale_name = "plasma" /\ sample_call.steps = 1
    /\ sample_call.reverse
    /\ sample_ret.v = <<(<<13, 8, 135>>)>>

----------------------------------------------------------------------------
(* Properties of normalize_color *)

\* the argument of the call, when it is a string
StrArg == color_call.arg.s

AllHexDigits(h) == \A k \in 1..Len(h) : IsHexDigit(SubSeq(h, k, k))

\* the call was made on '#' followed by hexadecimal digits only
HexColorCall ==
    /\ color_call.called
    /\ color_call.arg.kind = "str"
    /\ StartsWith(StrArg, "#")
    /\ AllHexDigits(SubSeq(StrArg, 2, Len(StrArg)))

InvalidFormat == Raised("ValueError", "Invalid hex color format")

AllBytes(v) == \A k \in 1..Len(v) : v[k] \in 0..255

\* C14 as stated: on any string that starts with '#', the call succeeds
\* exactly when 3, 4, 6 or 8 characters follow the '#', with 3 byte values
\* for 3 or 6 characters and 4 for 4 or 8, and fails with the invalid-format
\* error for every other count.
C14_HexLength ==
    (/\ color_call.called
     /\ color_call.arg.kind = "str"
     /\ StartsWith(StrArg, "#")) =>
        LET n == Len(StrArg) - 1
        IN /\ color_ret.kind = "list" <=> n \in {3, 4, 6, 8}
           /\ n \in {3, 6} => Len(color_ret.v) = 3 /\ AllBytes(color_ret.v)
           /\ n \in {4, 8} => Len(color_ret.v) = 4 /\ AllBytes(color_ret.v)
           /\ n \notin {3, 4, 6, 8} => color_ret.kind = "ValueError"

\* C14 amended: on a string made of '#' followed by hexadecimal digits only,
\* the call succeeds exactly when the number of digits is 3, 4, 6 or 8, with
\* 3 byte values for 3 or 6 digits and 4 for 4 or 8, and fails with the
\* invalid-format error for every other digit count.
C14_HexDigitCount ==
    HexColorCall =>
        LET n == Len(StrArg) - 1
        IN /\ color_ret.kind = "list" <=> n \in {3, 4, 6, 8}
           /\ n \in {3, 6} => Len(color_ret.v) = 3 /\ AllBytes(color_ret.v)
           /\ n \in {4, 8} => Len(color_ret.v) = 4 /\ AllBytes(color_ret.v)
           /\ n \notin {3, 4, 6, 8} => color_ret = InvalidFormat

\* eight digits have given four bytes
C14_Witness ==
    /\ HexColorCall
    /\ StrArg = "#ff88ff88"
    /\ color_ret = Returned(<<255, 136, 255, 136>>)

\* the long form of a short colour: every digit written twice
LongForm(d) ==
    IF Len(d) = 3
    THEN SubSeq(d, 1, 1) \o SubSeq(d, 1, 1) \o SubSeq(d, 2, 2) \o SubSeq(d, 2, 2)
            \o SubSeq(d, 3, 3) \o SubSeq(d, 3, 3)
    ELSE SubSeq(d, 1, 1) \o SubSeq(d, 1, 1) \o SubSeq(d, 2, 2) \o SubSeq(d, 2, 2)
            \o SubSeq(d, 3, 3) \o SubSeq(d, 3, 3) \o SubSeq(d, 4, 4) \o SubSeq(d, 4, 4)

\* C15: a short hex colour of 3 or 4 digits, of either case, gives what the
\* long form with every digit doubled gives: element k is 17 times the value
\* of digit k.
C15_ShortForm ==
    (HexColorCall /\ Len(StrArg) - 1 \in {3, 4}) =>
        LET d == SubSeq(StrArg, 2, Len(StrArg))
        IN /\ color_ret = normalize_color(PyStr("#" \o LongForm(d)))
           /\ color_ret.kind = "list"
           /\ Len(color_ret.v) = Len(d)
           /\ \A k \in 1..Len(d) :
                 color_ret.v[k] = 17 * HexDigitValue(SubSeq(d, k, k))

\* '#F88' has given what '#FF8888' gives
C15_Witness ==
    /\ HexColorCall
    /\ StrArg = "#F88"
    /\ color_ret = Returned(<<255, 136, 136>>)

\* a byte as two hexadecimal digits taken from the given digit table
Hex2(b, digits) == digits[(b \div 16) + 1] \o digits[(b % 16) + 1]

RECURSIVE HexString(_, _)
HexString(v, digits) ==
    IF Len(v) = 0 THEN "" ELSE Hex2(v[1], digits) \o HexString(Tail(v), digits)

\* C16: a hex colour of 6 or 8 digits gives 3 or 4 values, and writing these
\* values back as two-digit hexadecimal numbers, in lower or upper case,
\* behind '#' and normalising that string gives the same list again.
C16_RoundTrip ==
    (HexColorCall /\ Len(StrArg) - 1 \in {6, 8}) =>
        /\ color_ret.kind = "list"
        /\ 2 * Len(color_ret.v) = Len(StrArg) - 1
        /\ \A digits \in {HexDigits, HexDigitsUpper} :
              normalize_color(PyStr("#" \o HexString(color_ret.v, digits))) = color_ret

\* '#8F88FF' has been read as 143, 136, 255
C16_Witness ==
    /\ HexColorCall
    /\ StrArg = "#8F88FF"
    /\ color_ret = Returned(<<143, 136, 255>>)
    /\ HexString(color_ret.v, HexDigits) = "8f88ff"

MissingMarker == Raised("ValueError", "Hex color must start with '#'")

\* C17 as stated: a string argument that does not begin with '#' fails with
\* a ValueError; only a string whose first character is '#' is accepted.
C17_MarkerFirst ==
    (/\ color_call.called
     /\ color_call.arg.kind = "str"
     /\ ~StartsWith(StrArg, "#")) => color_ret.kind = "ValueError"

\* C17 amended: a string argument that, once its leading and trailing
\* whitespace is removed, does not begin with '#' fails with the
\* missing-marker error; only a string whose first character after the
\* leading whitespace is '#' is accepted.
C17_MarkerAfterStrip ==
    (color_call.called /\ color_call.arg.kind = "str") =>
        /\ ~StartsWith(strip(StrArg), "#") => color_ret = MissingMarker
        /\ color_ret.kind = "list" =>
              \E k \in 1..Len(StrArg) :
                 /\ SubSeq(StrArg, k, k) = "#"
                 /\ \A j \in 1..(k - 1) : SubSeq(StrArg, j, j) \in Whitespace

\* six digits behind a blank and without the marker have been rejected
C17_Witness ==
    /\ color_call.called
    /\ color_call.arg = PyStr(" 8f8f8f")
    /\ color_ret = MissingMarker

\* C18: a list or tuple argument is accepted exactly when it has 3 or 4
\* elements; the returned list has the same elements in the same order, none
\* of them clamped; any other length fails with the wrong-shape error.
C18_Sequence ==
    (color_call.called /\ color_call.arg.kind \in {"list", "tuple"}) =>
        LET v == color_call.arg.v
        IN /\ color_ret.kind = "list" <=> Len(v) \in {3, 4}
           /\ Len(v) \in {3, 4} => color_ret = Returned(v)
           /\ Len(v) \notin {3, 4} =>
                 color_ret = Raised("ValueError", "Color must have 3 or 4 components")

\* a tuple with components outside a byte has come back as it was
C18_Witness ==
    /\ color_call.called
    /\ color_call.arg = PyTuple(<<-1, 256, 128, 256>>)
    /\ color_ret = Returned(<<-1, 256, 128, 256>>)

\* C19: whenever a string argument is accepted, every element of the
\* returned list is an integer in 0..255.
C19_HexBytes ==
    (/\ color_call.called
     /\ color_call.arg.kind = "str"
     /\ color_ret.kind = "list") => AllBytes(color_ret.v)

----------------------------------------------------------------------------
(* Properties of the layer helpers *)

\* C20: a _set_prop of a value other than None under a name of the class's
\* _color_props stores normalize_color(value), and stores nothing if that
\* raises, unless the value is a string starting with '@@=' or '@@scale(',
\* which is stored as it is; under any other name the value is stored as it
\* is. No other property changes.
C20_SetPropStep ==
    (layer.constructed /\ layer_call'.name = "_set_prop" /\ layer_call'.value # PyNone) =>
        LET key == layer_call'.key
            value == layer_call'.value
            camel_key == to_camel_case(key)
            exempt == /\ value.kind = "str"
                      /\ \/ StartsWith(value.s, "@@=")
                         \/ StartsWith(value.s, "@@scale(")
            normalized == normalize_color(value)
        IN /\ (key \in color_props(layer.cls) /\ ~exempt /\ normalized.kind = "list") =>
                 layer'.props[camel_key] = PyList(normalized.v)
           /\ (key \in color_props(layer.cls) /\ ~exempt /\ normalized.kind # "list") =>
                 layer' = layer /\ layer_ret'.kind = normalized.kind
           /\ (key \notin color_props(layer.cls) \/ exempt) =>
                 layer'.props[camel_key] = value
           /\ \A k \in CamelKeys \ {camel_key} : layer'.props[k] = layer.props[k]

C20_ColorProps == [][C20_SetPropStep]_vars

\* a GeoJsonLayer holds the hex colour as a list, the scale accessor given
\* for another colour property as the string it was, and a hex string under
\* a name outside its _color_props as that string
C20_Witness ==
    /\ layer.constructed /\ layer.cls = "GeoJsonLayer"
    /\ layer_call = [name |-> "_set_prop", key |-> "get_fill_color", value |-> PyStr("#F80")]
    /\ layer.props["getFillColor"] = PyList(<<255, 136, 0>>)
    /\ layer.props["getLineColor"] = PyStr("@@scale(viridis, value)")
    /\ layer.props["getColor"] = PyStr("#F80")

\* C21: to_dict() returns a dict whose '@@type' is the layer type of the
\* class and whose 'id' is the constructor id, with, besides these two, exactly
\* the camelCase keys of the properties a value other than None was stored
\* under; a property only ever given None, or never given, is not a key.
C21_ToDictKeys ==
    layer_call.name = "to_dict" =>
        LET d == layer_ret.d
        IN /\ layer_ret.kind = "dict"
           /\ d["@@type"] = PyStr(layer.cls)
           /\ d["id"] = PyStr(layer.id)
           /\ DOMAIN d = {"@@type", "id"} \cup { to_camel_case(k) : k \in layer_hist }
           /\ \A k \in DOMAIN d \ {"@@type", "id"} : d[k] # PyNone /\ d[k] # Absent

\* a PathLayer given get_color and get_fill_color (and nothing, or None, for
\* get_line_color) is emitted with getColor and getFillColor only
C21_Witness ==
    /\ layer_call.name = "to_dict"
    /\ layer.cls = "PathLayer" /\ layer.id = "paths"
    /\ layer_hist = {"get_color", "get_fill_color"}
    /\ DOMAIN layer_ret.d = {"@@type", "id", "getColor", "getFillColor"}
    /\ layer_ret.d["@@type"] = PyStr("PathLayer")
    /\ layer_ret.d["getColor"] = PyList(<<255, 128, 0, 200>>)

\* what a MapLibreConfig is given as a source or as a map layer: an object
\* with a to_dict method, or a plain dict
NoSourceObject == RasterSourceObject(PyNone, PyNone, PyNone, PyNone, PyNone, PyNone, PyNone)
NoMapLayerObject ==
    MapLayerObject("", "", "", PyNone, PyNone, PyNone, PyNone, <<>>, <<>>, PyNone)
SourceSpec(o) == [kind |-> "RasterSource", src |-> o, lyr |-> NoMapLayerObject, d |-> <<>>]
MapLayerSpec(l) == [kind |-> "MapLayer", src |-> NoSourceObject, lyr |-> l, d |-> <<>>]
DictSpec(d) == [kind |-> "dict", src |-> NoSourceObject, lyr |-> NoMapLayerObject, d |-> d]

\* hasattr(spec, 'to_dict') ? spec.to_dict() : spec
spec_to_dict(e) ==
    CASE e.kind = "RasterSource" -> RasterSource_to_dict(e.src)
      [] e.kind = "MapLayer" -> BaseMapLibreLayer_to_dict(e.lyr)
      [] OTHER -> e.d

\* MapLibreConfig.__init__: None and empty arguments become empty containers
MapLibreConfig_init(style, sources, map_layers, interleaved, attribution_control, map_options) ==
    [style |-> style,
     sources |-> IF truthy(sources) THEN sources.v ELSE <<>>,
     map_layers |-> IF truthy(map_layers) THEN map_layers.v ELSE <<>>,
     interleaved |-> interleaved,
     attribution_control |-> attribution_control,
     map_options |-> IF truthy(map_options) THEN map_options.v ELSE <<>>]

\* variant: 'sources' is emitted even when no source was given
MapLibreConfig_to_dict_all_sources(cfg) ==
    LET sources_dict == [id \in DOMAIN cfg.sources |-> PyDict(spec_to_dict(cfg.sources[id]))]
        layers_list == [k \in 1..Len(cfg.map_layers) |-> PyDict(spec_to_dict(cfg.map_layers[k]))]
        keys == {"style", "sources"}
                 \cup (IF Len(layers_list) > 0 THEN {"mapLayers"} ELSE {})
                 \cup (IF cfg.interleaved THEN {"interleaved"} ELSE {})
                 \cup (IF ~cfg.attribution_control THEN {"attributionControl"} ELSE {})
                 \cup (IF DOMAIN cfg.map_options # {} THEN {"mapOptions"} ELSE {})
    IN [k \in keys |->
           CASE k = "style" -> cfg.style
             [] k = "sources" -> PyDict(sources_dict)
             [] k = "mapLayers" -> PyList(layers_list)
             [] k = "interleaved" -> PyBool(TRUE)
             [] k = "attributionControl" -> PyBool(FALSE)
             [] k = "mapOptions" -> PyDict(cfg.map_options)]

\* MapLibreConfig.to_dict
MapLibreConfig_to_dict(cfg) ==
    LET sources_dict == [id \in DOMAIN cfg.sources |-> PyDict(spec_to_dict(cfg.sources[id]))]
        layers_list == [k \in 1..Len(cfg.map_layers) |-> PyDict(spec_to_dict(cfg.map_layers[k]))]
        keys == {"style"}
                 \cup (IF DOMAIN sources_dict # {} THEN {"sources"} ELSE {})
                 \cup (IF Len(layers_list) > 0 THEN {"mapLayers"} ELSE {})
                 \cup (IF cfg.interleaved THEN {"interleaved"} ELSE {})
                 \cup (IF ~cfg.attribution_control THEN {"attributionControl"} ELSE {})
                 \cup (IF DOMAIN cfg.map_options # {} THEN {"mapOptions"} ELSE {})
    IN [k \in keys |->
           CASE k = "style" -> cfg.style
             [] k = "sources" -> PyDict(sources_dict)
             [] k = "mapLayers" -> PyList(layers_list)
             [] k = "interleaved" -> PyBool(TRUE)
             [] k = "attributionControl" -> PyBool(FALSE)
             [] k = "mapOptions" -> PyDict(cfg.map_options)]

\* MapLibreConfig(...).to_dict() on the arguments drawn in the initial state
MapLibreConfig_to_dict_call ==
    /\ fn_call.name = "MapLibreConfig.to_dict" /\ ~fn_call.called
    /\ UNCHANGED notFn
    /\ fn_call' = [fn_call EXCEPT !.called = TRUE]
    /\ fn_ret' = [kind |-> "dict",
                  d |-> MapLibreConfig_to_dict(
                           MapLibreConfig_init(fn_call.style, fn_call.sources,
                               fn_call.map_layers, fn_call.interleaved,
                               fn_call.attribution_control, fn_call.map_options))]

\* MapLibreStyle.empty()
EmptyStyle ==
    [k \in {"version", "sources", "layers"} |->
        CASE k = "version" -> PyNum(8)
          [] k = "sources" -> PyDict(<<>>)
          [] k = "layers" -> PyList(<<>>)]
CARTO_POSITRON == "https://basemaps.cartocdn.com/gl/positron-gl-style/style.json"

\* RasterSource(tiles=['url'], max_zoom=18)
UrlSource == RasterSourceObject(PyList(<<PyStr("url")>>), PyNum(256), PyNum(0),
                                PyNum(18), PyNone, PyNone, PyStr("xyz"))
\* {'type': 'raster', 'tiles': []}
RasterDict == [k \in {"type", "tiles"} |->
                  IF k = "type" THEN PyStr("raster") ELSE PyList(<<>>)]
\* {'id': 'layer1', 'type': 'raster', 'source': 'src'}
LayerDict == [k \in {"id", "type", "source"} |->
                 CASE k = "id" -> PyStr("layer1")
                   [] k = "type" -> PyStr("raster")
                   [] k = "source" -> PyStr("src")]
\* RasterLayer(id='layer2', source='src')
PlainRasterLayer ==
    MapLayerObject("RasterLayer", "layer2", "src", PyNone, PyNone, PyNone, PyNone,
                   <<>>, <<>>, PyNone)
\* FillLayer(id='layer3', source='src', source_layer='building', min_zoom=0,
\*           fill_color='#ff0000')
RedFillLayer ==
    MapLayerObject("FillLayer", "layer3", "src", PyStr("building"), PyNum(0), PyNone,
                   PyNone, <<>>, [k \in {"fill-color"} |-> PyStr("#ff0000")], PyNone)

StyleInputs == { PyStr(CARTO_POSITRON), PyDict(EmptyStyle) }
SourcesInputs ==
    { PyNone, PyDict(<<>>),
      PyDict([id \in {"src"} |-> DictSpec(RasterDict)]),
      PyDict([id \in {"src"} |-> SourceSpec(UrlSource)]),
      PyDict([id \in {"src", "wms"} |->
                 IF id = "src" THEN SourceSpec(UrlSource) ELSE DictSpec(RasterDict)]) }
MapLayerInputs ==
    { DictSpec(LayerDict), MapLayerSpec(PlainRasterLayer), MapLayerSpec(RedFillLayer) }
MapLayersInputs(max_n) ==
    { PyNone } \cup { PyList(v) : v \in UNION { [1..n -> MapLayerInputs] : n \in 0..max_n } }
MapOptionsInputs ==
    { PyNone, PyDict(<<>>), PyDict([k \in {"maxZoom"} |-> PyNum(18)]) }

InitConfig ==
    /\ ScaleIdle
    /\ SampleIdle
    /\ ColorIdle
    /\ LayerIdle
    /\ StyleIdle
    /\ ReleaseIdle
    /\ fn_call \in [name : {"MapLibreConfig.to_dict"}, style : StyleInputs,
                     sources : SourcesInputs, map_layers : MapLayersInputs(MaxMapLayers),
                     interleaved : BOOLEAN, attribution_control : BOOLEAN,
                     map_options : MapOptionsInputs, called : {FALSE}]
    /\ fn_ret = NoFnRet

NextConfig == MapLibreConfig_to_dict_call

SpecConfig == InitConfig /\ [][NextConfig]_vars


----------------------------------------------------------------------------
(* maplibre/layers.py: constructing style layers *)

MaxStyleLayers == 2     \* at most this many style layers are constructed

\* the convenience arguments of each class: the dict and the key each one is
\* stored under when it is not None
CArg(arg, target, key) == [arg |-> arg, target |-> target, key |-> key]
convenience_args ==
    [c \in MapLayerClasses |->
        CASE c = "FillLayer" ->
               { CArg("fill_color", "paint", "fill-color"),
                 CArg("fill_opacity", "paint", "fill-opacity"),
                 CArg("fill_outline_color", "paint", "fill-outline-color"),
                 CArg("fill_pattern", "paint", "fill-pattern"),
                 CArg("fill_antialias", "paint", "fill-antialias"),
                 CArg("fill_translate", "paint", "fill-translate"),
                 CArg("fill_translate_anchor", "paint", "fill-translate-anchor"),
                 CArg("visibility", "layout", "visibility"),
                 CArg("fill_sort_key", "layout", "fill-sort-key") }
          [] c = "LineLayer" ->
               { CArg("line_color", "paint", "line-color"),
                 CArg("line_width", "paint", "line-width"),
                 CArg("line_opacity", "paint", "line-opacity"),
                 CArg("line_blur", "paint", "line-blur"),
                 CArg("line_dasharray", "paint", "line-dasharray"),
                 CArg("line_gap_width", "paint", "line-gap-width"),
                 CArg("line_offset", "paint", "line-offset"),
                 CArg("line_pattern", "paint", "line-pattern"),
                 CArg("line_translate", "paint", "line-translate"),
                 CArg("line_translate_anchor", "paint", "line-translate-anchor"),
                 CArg("line_gradient", "paint", "line-gradient"),
                 CArg("visibility", "layout", "visibility"),
                 CArg("line_cap", "layout", "line-cap"),
                 CArg("line_join", "layout", "line-join"),
                 CArg("line_miter_limit", "layout", "line-miter-limit"),
                 CArg("line_round_limit", "layout", "line-round-limit"),
                 CArg("line_sort_key", "layout", "line-sort-key") }
          [] c = "RasterLayer" ->
               { CArg("raster_opacity", "paint", "raster-opacity"),
                 CArg("raster_hue_rotate", "paint", "raster-hue-rotate"),
                 CArg("raster_brightness_min", "paint", "raster-brightness-min"),
                 CArg("raster_brightness_max", "paint", "raster-brightness-max"),
                 CArg("raster_saturation", "paint", "raster-saturation"),
                 CArg("raster_contrast", "paint", "raster-contrast"),
                 CArg("raster_resampling", "paint", "raster-resampling"),
                 CArg("raster_fade_duration", "paint", "raster-fade-duration"),
                 CArg("visibility", "layout", "visibility") }
          [] c = "CircleLayer" ->
               { CArg("circle_radius", "paint", "circle-radius"),
                 CArg("circle_color", "paint", "circle-color"),
                 CArg("circle_blur", "paint", "circle-blur"),
                 CArg("circle_opacity", "paint", "circle-opacity"),
                 CArg("circle_stroke_width", "paint", "circle-stroke-width"),
                 CArg("circle_stroke_color", "paint", "circle-stroke-color"),
                 CArg("circle_stroke_opacity", "paint", "circle-stroke-opacity"),
                 CArg("circle_translate", "paint", "circle-translate"),
                 CArg("circle_translate_anchor", "paint", "circle-translate-anchor"),
                 CArg("circle_pitch_scale", "paint", "circle-pitch-scale"),
                 CArg("circle_pitch_alignment", "paint", "circle-pitch-alignment"),
                 CArg("visibility", "layout", "visibility"),
                 CArg("circle_sort_key", "layout", "circle-sort-key") }
          [] c = "SymbolLayer" ->
               { CArg("text_field", "layout", "text-field"),
                 CArg("text_size", "layout", "text-size"),
                 CArg("text_font", "layout", "text-font"),
                 CArg("text_anchor", "layout", "text-anchor"),
                 CArg("text_offset", "layout", "text-offset"),
                 CArg("text_max_width", "layout", "text-max-width"),
                 CArg("text_justify", "layout", "text-justify"),
                 CArg("text_rotation_alignment", "layout", "text-rotation-alignment"),
                 CArg("text_pitch_alignment", "layout", "text-pitch-alignment"),
                 CArg("text_transform", "layout", "text-transform"),
                 CArg("text_letter_spacing", "layout", "text-letter-spacing"),
                 CArg("text_line_height", "layout", "text-line-height"),
                 CArg("icon_image", "layout", "icon-image"),
                 CArg("icon_size", "layout", "icon-size"),
                 CArg("icon_anchor", "layout", "icon-anchor"),
                 CArg("icon_offset", "layout", "icon-offset"),
                 CArg("icon_rotation_alignment", "layout", "icon-rotation-alignment"),
                 CArg("icon_pitch_alignment", "layout", "icon-pitch-alignment"),
                 CArg("symbol_placement", "layout", "symbol-placement"),
                 CArg("symbol_spacing", "layout", "symbol-spacing"),
                 CArg("symbol_sort_key", "layout", "symbol-sort-key"),
                 CArg("visibility", "layout", "visibility"),
                 CArg("text_color", "paint", "text-color"),
                 CArg("text_opacity", "paint", "text-opacity"),
                 CArg("text_halo_color", "paint", "text-halo-color"),
                 CArg("text_halo_width", "paint", "text-halo-width"),
                 CArg("text_halo_blur", "paint", "text-halo-blur"),
                 CArg("icon_color", "paint", "icon-color"),
                 CArg("icon_opacity", "paint", "icon-opacity"),
                 CArg("icon_halo_color", "paint", "icon-halo-color"),
                 CArg("icon_halo_width", "paint", "icon-halo-width"),
                 CArg("icon_halo_blur", "paint", "icon-halo-blur") }
          [] c = "FillExtrusionLayer" ->
               { CArg("fill_extrusion_color", "paint", "fill-extrusion-color"),
                 CArg("fill_extrusion_opacity", "paint", "fill-extrusion-opacity"),
                 CArg("fill_extrusion_height", "paint", "fill-extrusion-height"),
                 CArg("fill_extrusion_base", "paint", "fill-extrusion-base"),
                 CArg("fill_extrusion_pattern", "paint", "fill-extrusion-pattern"),
                 CArg("fill_extrusion_translate", "paint", "fill-extrusion-translate"),
                 CArg("fill_extrusion_translate_anchor", "paint", "fill-extrusion-translate-anchor"),
                 CArg("fill_extrusion_vertical_gradient", "paint", "fill-extrusion-vertical-gradient"),
                 CArg("visibility", "layout", "visibility"),
                 CArg("fill_extrusion_edge_radius", "layout", "fill-extrusion-edge-radius") }]

\* the dicts the caller holds and may pass as paint and as layout
CallerPaint == 1
CallerLayout == 2

\* {'fill-opacity': 1} and {'visibility': 'visible'}
OpacityPaint == [k \in {"fill-opacity"} |-> PyNum(1)]
VisibleLayout == [k \in {"visibility"} |-> PyStr("visible")]

\* the convenience arguments a constructor call is given: none, or one of the
\* class's first paint argument, its visibility argument and its last
\* argument, each with a value
ProbeArgs(cls) ==
    { a \in convenience_args[cls] :
         \/ a.arg = "visibility"
         \/ a.key \in {"fill-color", "line-color", "raster-opacity", "circle-radius",
                       "text-field", "fill-extrusion-color"}
         \/ a.key \in {"fill-sort-key", "line-sort-key", "circle-sort-key",
                       "symbol-sort-key"} }
GivenArgs(cls) ==
    { <<>> } \cup { [n \in {a.arg} |-> PyStr("own-" \o a.arg)] : a \in ProbeArgs(cls) }

\* self.paint = paint or {} (and the same for layout): the dict given, when one
\* is given and it is not empty, else a new empty dict
attribute_dict(heap, ref, given) ==
    IF given /\ DOMAIN heap[ref] # {}
    THEN [ref |-> ref, heap |-> heap]
    ELSE [ref |-> Len(heap) + 1, heap |-> Append(heap, <<>>)]

\* the dict after the class's "if arg is not None: self.<target>[key] = arg"
\* statements for one target
with_convenience(d, cls, target, args) ==
    LET set == { a \in convenience_args[cls] : a.target = target /\ a.arg \in DOMAIN args }
        keys == { a.key : a \in set }
    IN [k \in DOMAIN d \cup keys |->
           IF k \in keys THEN args[(CHOOSE a \in set : a.key = k).arg] ELSE d[k]]

\* <Class>(id, source, paint=..., layout=..., **convenience arguments)
StyleLayer_init(cls, id, paint_given, layout_given, args) ==
    /\ Len(style_layers) < MaxStyleLayers
    /\ UNCHANGED notStyle
    /\ LET lay == attribute_dict(dicts, CallerLayout, layout_given)
           pnt == attribute_dict(lay.heap, CallerPaint, paint_given)
           heap == [pnt.heap EXCEPT
                       ![pnt.ref] = with_convenience(@, cls, "paint", args),
                       ![lay.ref] = with_convenience(@, cls, "layout", args)]
       IN /\ dicts' = heap
          /\ style_layers' = Append(style_layers,
                 [cls |-> cls, id |-> id, source |-> "src", source_layer |-> PyNone,
                  min_zoom |-> PyNone, max_zoom |-> PyNone, filter |-> PyNone,
                  layout |-> lay.ref, paint |-> pnt.ref, metadata |-> PyNone])
    /\ fn_call' = [name |-> cls, called |-> TRUE]
    /\ fn_ret' = NoFnRet

\* the layer with its layout and paint attributes followed to their dicts
resolve(l, heap) == [l EXCEPT !.layout = heap[l.layout], !.paint = heap[l.paint]]

\* style_layers[i].to_dict()
StyleLayer_to_dict(i) ==
    /\ i \in 1..Len(style_layers)
    /\ UNCHANGED notStyle
    /\ UNCHANGED styleVars
    /\ fn_call' = [name |-> "to_dict", called |-> TRUE]
    /\ fn_ret' = [kind |-> "dict",
                  d |-> BaseMapLibreLayer_to_dict(resolve(style_layers[i], dicts))]

StyleLayerIds == <<"first", "second", "third">>

InitStyle ==
    /\ ScaleIdle
    /\ SampleIdle
    /\ ColorIdle
    /\ LayerIdle
    /\ FnIdle
    /\ ReleaseIdle
    /\ dicts \in { <<p, l>> : p \in {<<>>, OpacityPaint}, l \in {<<>>, VisibleLayout} }
    /\ style_layers = <<>>

NextStyle ==
    \/ \E cls \in MapLayerClasses, paint_given \in BOOLEAN, layout_given \in BOOLEAN :
          \E args \in GivenArgs(cls) :
              StyleLayer_init(cls, StyleLayerIds[Len(style_layers) + 1],
                              paint_given, layout_given, args)
    \/ \E i \in 1..MaxStyleLayers : StyleLayer_to_dict(i)

SpecStyle == InitStyle /\ [][NextStyle]_vars

----------------------------------------------------------------------------
(* DeckGL.py (generated base class) and component.py (wrapper) *)

MaxComponentLayers == 1   \* the component is given 0..MaxComponentLayers layers

\* self._prop_names of the generated class
prop_names ==
    {"id", "clickInfo", "controller", "enableEvents", "hoverInfo", "initialViewState",
     "layers", "mapStyleLoaded", "maplibreConfig", "style", "tooltip", "viewState"}

\* the named parameters of the wrapper besides id and layers, and the
\* keyword each is handed to the base class under
WrapperParams ==
    {"initial_view_state", "view_state", "controller", "enable_events", "tooltip",
     "style", "click_info", "hover_info"}
base_keyword ==
    [a \in WrapperParams |->
        CASE a = "initial_view_state" -> "initialViewState"
          [] a = "view_state" -> "viewState"
          [] a = "controller" -> "controller"
          [] a = "enable_events" -> "enableEvents"
          [] a = "tooltip" -> "tooltip"
          [] a = "style" -> "style"
          [] a = "click_info" -> "clickInfo"
          [] a = "hover_info" -> "hoverInfo"]

\* the generated __init__: every explicitly passed keyword is handed to
\* Component.__init__, which rejects a keyword that is not a property of the
\* component and stores every other one as an attribute
DeckGLBase_init(args) ==
    IF \E k \in DOMAIN args : k \notin prop_names
    THEN [kind |-> "TypeError", attrs |-> <<>>]
    ELSE [kind |-> "component", attrs |-> args]

\* the wrapper's __init__: layers are converted, the named arguments are
\* renamed and the remaining keywords are passed on as they are
DeckGL_init(id, layers, named, kwargs) ==
    LET processed == IF layers.kind # "None" THEN process_layers(layers)
                     ELSE [kind |-> "None", v |-> <<>>]
        passed == {"id", "layers"} \cup { base_keyword[a] : a \in WrapperParams }
        args == [k \in passed \cup DOMAIN kwargs |->
                    IF k \in DOMAIN kwargs /\ k \notin passed THEN kwargs[k]
                    ELSE IF k = "id" THEN id
                    ELSE IF k = "layers"
                         THEN (IF processed.kind = "None" THEN PyNone
                               ELSE PyList(processed.v))
                    ELSE named[CHOOSE a \in WrapperParams : base_keyword[a] = k]]
    IN IF processed.kind = "TypeError" THEN [kind |-> "TypeError", attrs |-> <<>>]
       ELSE IF DOMAIN kwargs \cap passed # {}
       THEN [kind |-> "TypeError", attrs |-> <<>>]
       ELSE DeckGLBase_init(args)

\* DeckGL(...) on the arguments drawn in the initial state
DeckGL_call ==
    /\ fn_call.name = "DeckGL" /\ ~fn_call.called
    /\ UNCHANGED notFn
    /\ fn_call' = [fn_call EXCEPT !.called = TRUE]
    /\ fn_ret' = DeckGL_init(fn_call.id, fn_call.layers, fn_call.named, fn_call.kwargs)

\* {"scatter": [1, 2, 3]}
ScatterData == [k \in {"scatter"} |-> PyList(<<PyNum(1), PyNum(2), PyNum(3)>>)]

NamedInputs ==
    { [a \in WrapperParams |->
          CASE a = "controller" -> c
            [] a = "tooltip" -> t
            [] OTHER -> PyNone] : c \in {PyNone, PyBool(TRUE)}, t \in {PyNone, PyBool(TRUE)} }
KwargsInputs ==
    { <<>>,
      [k \in {"layer_data"} |-> PyDict(<<>>)],
      [k \in {"layer_data"} |-> PyDict(ScatterData)],
      [k \in {"mapStyleLoaded"} |-> PyBool(FALSE)] }

InitComponent ==
    /\ ScaleIdle
    /\ SampleIdle
    /\ ColorIdle
    /\ LayerIdle
    /\ StyleIdle
    /\ ReleaseIdle
    /\ fn_call \in [name : {"DeckGL"}, id : {PyStr("map")},
                     layers : ProcessInputs(MaxComponentLayers),
                     named : NamedInputs, kwargs : KwargsInputs, called : {FALSE}]
    /\ fn_ret = NoFnRet

NextComponent == DeckGL_call

SpecComponent == InitComponent /\ [][NextComponent]_vars

----------------------------------------------------------------------------
(* scripts/release.py *)

\* FILES_TO_UPDATE, in order
FILES_TO_UPDATE == <<"pyproject.toml", "package.json", "deckgl_dash/package-info.json">>

\* what a configuration file holds: it is missing, it has no version entry
\* (""), or the version its first version entry names
Missing == "missing"
FileInputs == {Missing, "", "0.1.0", "0.2.0"}
VersionInputs == {"0.2.0", "0.2", "0.2.0\n", "v0.2.0"}
ArgvInputs ==
    { <<>> } \cup { <<v>> : v \in VersionInputs }
             \cup { <<v, "--dry-run">> : v \in VersionInputs }
             \cup { <<"--dry-run", v>> : v \in VersionInputs }

IsDigit(c) == \E k \in 1..10 : DigitChars[k] = c

\* re.match(r'^\d+\.\d+\.\d+$', version): three runs of digits separated by
\* dots; '$' also matches in front of one final newline
version_format_ok(version) ==
    LET body == IF EndsWith(version, "\n") THEN SubSeq(version, 1, Len(version) - 1)
                ELSE version
        dots == { k \in 1..Len(body) : SubSeq(body, k, k) = "." }
    IN /\ Cardinality(dots) = 2
       /\ \A k \in (1..Len(body)) \ dots : IsDigit(SubSeq(body, k, k))
       /\ 1 \notin dots /\ Len(body) \notin dots
       /\ \A k \in dots : k + 1 \notin dots

\* the script before main: its arguments and the files on disk
ReleaseStart(argv, files) ==
    [pc |-> "main", argv |-> argv, version |-> "", dry_run |-> FALSE,
     files0 |-> files, files |-> files, writes |-> {}, bumped |-> FALSE,
     reported |-> <<>>, executed |-> <<>>, exit |-> -1]

\* variant: the command is executed in a dry run as well
run_always(r, cmd, ok) ==
    [ok |-> ok,
     r |-> [r EXCEPT !.reported = Append(@, cmd),
                     !.executed = Append(@, [cmd |-> cmd, ok |-> ok])]]

\* run(cmd, dry_run): the command is printed; in a dry run nothing is executed
\* and the result is True, otherwise the result is whether the command
\* returned 0 (ok)
run(r, cmd, ok) ==
    IF r.dry_run
    THEN [ok |-> TRUE, r |-> [r EXCEPT !.reported = Append(@, cmd)]]
    ELSE [ok |-> ok,
          r |-> [r EXCEPT !.reported = Append(@, cmd),
                          !.executed = Append(@, [cmd |-> cmd, ok |-> ok])]]

\* variant: a failed command does not end the run
step_ignore_failure(r, cmd, ok, next) ==
    [run(r, cmd, ok).r EXCEPT !.pc = next]

\* if not run(cmd, dry_run): sys.exit(1)
step(r, cmd, ok, next) ==
    LET res == run(r, cmd, ok)
    IN IF res.ok THEN [res.r EXCEPT !.pc = next]
       ELSE [res.r EXCEPT !.pc = "done", !.exit = 1]

\* the file gets new content: it exists and its first version entry is not
\* the new version already
bump_updates(r, f) ==
    r.files[f] # Missing /\ r.files[f] # "" /\ r.files[f] # r.version

\* bump_version(new_version, dry_run): every file is reported; a file is
\* written when it gets new content and this is not a dry run
bump_version(r) ==
    LET updated == { f \in DOMAIN r.files : bump_updates(r, f) }
        written == IF r.dry_run THEN {} ELSE updated
    IN [r EXCEPT !.files = [f \in DOMAIN r.files |->
                               IF f \in written THEN r.version ELSE r.files[f]],
                 !.writes = @ \cup written,
                 !.reported = @ \o [k \in 1..Len(FILES_TO_UPDATE) |->
                     IF r.files[FILES_TO_UPDATE[k]] = Missing
                     THEN "skipping " \o FILES_TO_UPDATE[k]
                     ELSE IF FILES_TO_UPDATE[k] \in updated
                     THEN "Updated " \o FILES_TO_UPDATE[k]
                     ELSE "No version found in " \o FILES_TO_UPDATE[k]],
                 !.bumped = TRUE]

build_cmd == "npm run build:js"
add_cmd == "git add -A"
commit_cmd(version) == "git commit -m \"Release v" \o version \o "\""
tag_cmd(version) == "git tag v" \o version

\* __main__: usage error without arguments, else release(argv[1], dry_run)
main ==
    /\ rel.pc = "main"
    /\ UNCHANGED notRelease
    /\ IF Len(rel.argv) < 1
       THEN rel' = [rel EXCEPT !.pc = "done", !.exit = 1]
       ELSE rel' = [rel EXCEPT !.pc = "check", !.version = rel.argv[1],
                               !.dry_run = \E k \in 1..Len(rel.argv) :
                                               rel.argv[k] = "--dry-run"]

\* release: the version format is validated first
release_check ==
    /\ rel.pc = "check"
    /\ UNCHANGED notRelease
    /\ IF version_format_ok(rel.version)
       THEN rel' = [rel EXCEPT !.pc = "bump"]
       ELSE rel' = [rel EXCEPT !.pc = "done", !.exit = 1]

\* step 1: bump_version always returns True
release_bump ==
    /\ rel.pc = "bump"
    /\ UNCHANGED notRelease
    /\ rel' = [bump_version(rel) EXCEPT !.pc = "build"]

\* step 2
release_build ==
    /\ rel.pc = "build"
    /\ UNCHANGED notRelease
    /\ \E ok \in BOOLEAN : rel' = step(rel, build_cmd, ok, "add")

\* step 3
release_add ==
    /\ rel.pc = "add"
    /\ UNCHANGED notRelease
    /\ \E ok \in BOOLEAN : rel' = step(rel, add_cmd, ok, "commit")

release_commit ==
    /\ rel.pc = "commit"
    /\ UNCHANGED notRelease
    /\ \E ok \in BOOLEAN : rel' = step(rel, commit_cmd(rel.version), ok, "tag")

\* step 4, and the normal end of the script
release_tag ==
    /\ rel.pc = "tag"
    /\ UNCHANGED notRelease
    /\ \E ok \in BOOLEAN :
          LET r == step(rel, tag_cmd(rel.version), ok, "done")
          IN rel' = IF r.exit = 1 THEN r ELSE [r EXCEPT !.exit = 0]

InitRelease ==
    /\ ScaleIdle
    /\ SampleIdle
    /\ ColorIdle
    /\ LayerIdle
    /\ StyleIdle
    /\ FnIdle
    /\ rel \in { ReleaseStart(argv, files) :
                    argv \in ArgvInputs,
                    files \in [{ FILES_TO_UPDATE[k] : k \in 1..3 } -> FileInputs] }

NextRelease ==
    \/ main
    \/ release_check
    \/ release_bump
    \/ release_build
    \/ release_add
    \/ release_commit
    \/ release_tag

SpecRelease == InitRelease /\ [][NextRelease]_vars

\* the call returned a list for steps > 1 that was not reversed
PlainSample ==
    /\ sample_call.called /\ sample_ret.kind = "list"
    /\ sample_call.steps > 1 /\ ~sample_call.reverse

SampleTable == SCALE_COLORS[table_name(sample_call.scale_name)]

\* the exact position of output i on the table is (lo + rem / den)
ExactLo(i) == (i * (Len(SampleTable) - 1)) \div (sample_call.steps - 1)
ExactRem(i) == (i * (Len(SampleTable) - 1)) % (sample_call.steps - 1)
ExactHi(i) == IF ExactLo(i) + 1 < Len(SampleTable) - 1 THEN ExactLo(i) + 1
              ELSE Len(SampleTable) - 1

\* den * (c_lo + frac * (c_hi - c_lo)) for channel k, in exact arithmetic
ExactScaled(i, k) ==
    LET c1 == hex_to_rgb(SampleTable[ExactLo(i) + 1])
        c2 == hex_to_rgb(SampleTable[ExactHi(i) + 1])
    IN c1[k] * (sample_call.steps - 1) + ExactRem(i) * (c2[k] - c1[k])

\* its truncation, and whether the exact value is a whole number
ExactChannel(i, k) == ExactScaled(i, k) \div (sample_call.steps - 1)
ExactIsWhole(i, k) == ExactScaled(i, k) % (sample_call.steps - 1) = 0

\* C25 as stated: for steps > 1 and N control points output i is computed
\* from the position i*(N-1)/(steps-1): lo is its integer part, hi is
\* min(lo+1, N-1) and each channel is the truncation of
\* c_lo + frac*(c_hi - c_lo); hence output 0 is the first control point and
\* output steps-1 the last.
C25_ExactInterpolation ==
    PlainSample =>
        /\ \A i \in 0..(sample_call.steps - 1) : \A k \in 1..3 :
               sample_ret.v[i + 1][k] = ExactChannel(i, k)
        /\ sample_ret.v[1] = hex_to_rgb(SampleTable[1])
        /\ sample_ret.v[sample_call.steps] = hex_to_rgb(SampleTable[Len(SampleTable)])

\* C25 amended: the position and the channels are evaluated in floating
\* point, so a channel equals the truncation of the exact interpolated value
\* except that it may be one less when that exact value is a whole number;
\* output 0 is the first control point and output steps-1 the last.
C25_FloatInterpolation ==
    PlainSample =>
        /\ \A i \in 0..(sample_call.steps - 1) : \A k \in 1..3 :
               \/ sample_ret.v[i + 1][k] = ExactChannel(i, k)
               \/ /\ ExactIsWhole(i, k)
                  /\ sample_ret.v[i + 1][k] = ExactChannel(i, k) - 1
        /\ sample_ret.v[1] = hex_to_rgb(SampleTable[1])
        /\ sample_ret.v[sample_call.steps] = hex_to_rgb(SampleTable[Len(SampleTable)])

\* 'Greens' sampled in 6 steps: output 4 is [20, 126, 58] where the exact
\* interpolation gives the whole numbers [21, 127, 59]; the ends are the
\* first and the last control point
C25_Witness ==
    /\ PlainSample
    /\ sample_call.scale_name = "Greens" /\ sample_call.steps = 6
    /\ sample_ret.v[5] = <<20, 126, 58>>
    /\ ExactChannel(4, 1) = 21 /\ ExactChannel(4, 2) = 127 /\ ExactChannel(4, 3) = 59
    /\ sample_ret.v[1] = hex_to_rgb(SampleTable[1])
    /\ sample_ret.v[6] = hex_to_rgb(SampleTable[Len(SampleTable)])

----------------------------------------------------------------------------
(* Claims about process_layers, checked under SpecProcess *)

ProcessCall == fn_call.name = "process_layers" /\ fn_call.called

\* C22: process_layers(None) returns None; for a sequence it returns a list of
\* the same length and order in which each layer object is replaced by its
\* to_dict() and each dict is passed through unchanged; an element that is
\* neither raises TypeError and no partial list is returned.
C22_ProcessLayers ==
    ProcessCall =>
        LET a == fn_call.layers
            bad == \E k \in 1..Len(a.v) : a.v[k].kind \notin {"layer", "dict"}
        IN /\ a.kind = "None" => fn_ret = [kind |-> "None", v |-> <<>>]
           /\ (a.kind = "list" /\ bad) => fn_ret = [kind |-> "TypeError", v |-> <<>>]
           /\ (a.kind = "list" /\ ~bad) =>
                 /\ fn_ret.kind = "list"
                 /\ Len(fn_ret.v) = Len(a.v)
                 /\ \A k \in 1..Len(a.v) :
                       /\ a.v[k].kind = "dict" => fn_ret.v[k] = a.v[k].d
                       /\ a.v[k].kind = "layer" =>
                             /\ fn_ret.v[k]["@@type"] = PyStr(a.v[k].layer.cls)
                             /\ fn_ret.v[k]["id"] = PyStr(a.v[k].layer.id)
                             /\ \A c \in CamelKeys :
                                   a.v[k].layer.props[c] # Absent =>
                                       /\ c \in DOMAIN fn_ret.v[k]
                                       /\ fn_ret.v[k][c] = a.v[k].layer.props[c]

\* a mixed list of a layer object, a dict and another layer object has been
\* converted in order
C22_Witness ==
    /\ ProcessCall
    /\ fn_call.layers.kind = "list"
    /\ Len(fn_call.layers.v) = 3
    /\ fn_call.layers.v[1] = LayerElement(PathLayerObject)
    /\ fn_call.layers.v[2] = DictElement(TileDict)
    /\ fn_call.layers.v[3] = LayerElement(GeoLayerObject)
    /\ fn_ret.kind = "list"
    /\ fn_ret.v[2] = TileDict
    /\ fn_ret.v[1]["id"] = PyStr("paths")
    /\ fn_ret.v[3]["getFillColor"] = PyList(<<255, 136, 0>>)

----------------------------------------------------------------------------
(* Claims about MapLibreConfig.to_dict, checked under SpecConfig *)

ConfigCall == fn_call.name = "MapLibreConfig.to_dict" /\ fn_call.called

\* the sources and the map layers the configuration was given
GivenSources == IF fn_call.sources.kind = "dict" THEN fn_call.sources.v ELSE <<>>
GivenMapLayers == IF fn_call.map_layers.kind = "list" THEN fn_call.map_layers.v ELSE <<>>
GivenMapOptions == IF fn_call.map_options.kind = "dict" THEN fn_call.map_options.v ELSE <<>>

\* C23: MapLibreConfig.to_dict() always contains 'style'; 'sources' appears
\* only when at least one source was given, 'mapLayers' only when at least one
\* layer was given, 'interleaved' only when interleaved is True,
\* 'attributionControl' only when attribution_control is False, 'mapOptions'
\* only when map_options is non-empty; source and layer objects are replaced
\* by their to_dict(), plain dicts are kept, and the layer order is preserved.
C23_ConfigKeys ==
    ConfigCall =>
        LET d == fn_ret.d
        IN /\ "style" \in DOMAIN d /\ d["style"] = fn_call.style
           /\ DOMAIN d \subseteq {"style", "sources", "mapLayers", "interleaved",
                                  "attributionControl", "mapOptions"}
           /\ "sources" \in DOMAIN d <=> DOMAIN GivenSources # {}
           /\ "mapLayers" \in DOMAIN d <=> Len(GivenMapLayers) >= 1
           /\ "interleaved" \in DOMAIN d <=> fn_call.interleaved
           /\ "attributionControl" \in DOMAIN d <=> ~fn_call.attribution_control
           /\ "mapOptions" \in DOMAIN d <=> DOMAIN GivenMapOptions # {}
           /\ "interleaved" \in DOMAIN d => d["interleaved"] = PyBool(TRUE)
           /\ "attributionControl" \in DOMAIN d => d["attributionControl"] = PyBool(FALSE)
           /\ "mapOptions" \in DOMAIN d => d["mapOptions"] = PyDict(GivenMapOptions)
           /\ "sources" \in DOMAIN d =>
                 /\ DOMAIN d["sources"].v = DOMAIN GivenSources
                 /\ \A id \in DOMAIN GivenSources :
                       LET e == GivenSources[id]
                           out == d["sources"].v[id].v
                       IN /\ e.kind = "dict" => out = e.d
                          /\ e.kind = "RasterSource" =>
                                /\ out["type"] = PyStr("raster")
                                /\ out["tiles"] = e.src.tiles
                                /\ out["tileSize"] = e.src.tile_size
           /\ "mapLayers" \in DOMAIN d =>
                 /\ Len(d["mapLayers"].v) = Len(GivenMapLayers)
                 /\ \A k \in 1..Len(GivenMapLayers) :
                       LET e == GivenMapLayers[k]
                           out == d["mapLayers"].v[k].v
                       IN /\ e.kind = "dict" => out = e.d
                          /\ e.kind = "MapLayer" =>
                                /\ out["id"] = PyStr(e.lyr.id)
                                /\ out["type"] = PyStr(layer_type[e.lyr.cls])
                                /\ out["source"] = PyStr(e.lyr.source)
                                /\ DOMAIN e.lyr.paint # {} =>
                                       out["paint"] = PyDict(e.lyr.paint)

\* a configuration with a source object and a source dict, a layer object
\* followed by a layer dict, interleaving on and attribution off has been
\* serialised
C23_Witness ==
    /\ ConfigCall
    /\ DOMAIN GivenSources = {"src", "wms"}
    /\ Len(GivenMapLayers) = 2
    /\ GivenMapLayers[1] = MapLayerSpec(RedFillLayer)
    /\ GivenMapLayers[2] = DictSpec(LayerDict)
    /\ fn_call.interleaved /\ ~fn_call.attribution_control
    /\ fn_call.map_options = PyNone
    /\ DOMAIN fn_ret.d = {"style", "sources", "mapLayers", "interleaved",
                          "attributionControl"}
    /\ fn_ret.d["mapLayers"].v[1].v["paint"].v["fill-color"] = PyStr("#ff0000")
    /\ fn_ret.d["mapLayers"].v[2].v = LayerDict
    /\ fn_ret.d["sources"].v["src"].v["maxzoom"] = PyNum(18)

----------------------------------------------------------------------------
(* Claims about the DeckGL component, checked under SpecComponent *)

ComponentCall == fn_call.name = "DeckGL" /\ fn_call.called

\* C24: constructing the DeckGL component with layer_data=D succeeds and
\* exposes layerData equal to D (D = {} included) without changing the layers
\* given in the same call; constructing it without layer_data leaves
\* layerData as None.
C24_LayerData ==
    (ComponentCall /\ process_layers(fn_call.layers).kind # "TypeError") =>
        /\ fn_ret.kind = "component"
        /\ "layerData" \in DOMAIN fn_ret.attrs
        /\ fn_ret.attrs["layers"] =
              (IF fn_call.layers.kind = "None" THEN PyNone
               ELSE PyList(process_layers(fn_call.layers).v))
        /\ fn_ret.attrs["layerData"] =
              (IF "layer_data" \in DOMAIN fn_call.kwargs THEN fn_call.kwargs["layer_data"]
               ELSE PyNone)

----------------------------------------------------------------------------
(* Claims about the release script, checked under SpecRelease *)

\* the commands of a release in their fixed order
ReleaseCommands ==
    <<build_cmd, add_cmd, commit_cmd(rel.version), tag_cmd(rel.version)>>

Started == rel.pc \notin {"idle", "main"}

\* C26: release(version) runs its steps in a fixed order: the version-format
\* check, the version bump of the config files, 'npm run build:js',
\* 'git add -A', 'git commit', 'git tag v<version>'; a step runs only if every
\* earlier command succeeded, the first failing command ends the run with exit
\* status 1, and the tag is created only after build and commit both
\* succeeded.
C26_ReleaseOrder ==
    Started =>
        /\ Len(rel.executed) <= 4
        /\ \A k \in 1..Len(rel.executed) :
              /\ rel.executed[k].cmd = ReleaseCommands[k]
              /\ k < Len(rel.executed) => rel.executed[k].ok
        /\ (rel.bumped \/ rel.executed # <<>>) =>
              /\ version_format_ok(rel.version)
              /\ rel.bumped
        /\ ~version_format_ok(rel.version) =>
              (rel.pc = "check" \/ (rel.pc = "done" /\ rel.exit = 1))
        /\ (\E k \in 1..Len(rel.executed) : ~rel.executed[k].ok) =>
              (rel.pc = "done" /\ rel.exit = 1)
        /\ (\E k \in 1..Len(rel.executed) : rel.executed[k].cmd = tag_cmd(rel.version)) =>
              /\ rel.executed[1] = [cmd |-> build_cmd, ok |-> TRUE]
              /\ rel.executed[3] = [cmd |-> commit_cmd(rel.version), ok |-> TRUE]
        /\ rel.exit = 0 =>
              /\ rel.pc = "done"
              /\ ~rel.dry_run => (Len(rel.executed) = 4 /\ rel.executed[4].ok)

\* a real run in which build and add succeeded and the commit failed: the
\* files are bumped, the tag command never ran, the exit status is 1
C26_Witness ==
    /\ rel.pc = "done" /\ ~rel.dry_run /\ rel.exit = 1
    /\ rel.version = "0.2.0"
    /\ rel.writes = {"pyproject.toml", "package.json"}
    /\ Len(rel.executed) = 3
    /\ rel.executed[1].ok /\ rel.executed[2].ok /\ ~rel.executed[3].ok
    /\ rel.executed[3].cmd = "git commit -m \"Release v0.2.0\""

\* C27: with --dry-run no changes are made: no config file is written and no
\* shell command is executed at any step, while every step is still reported
\* and treated as successful.
C27_DryRun ==
    (Started /\ rel.dry_run) =>
        /\ rel.writes = {} /\ rel.files = rel.files0
        /\ rel.executed = <<>>
        /\ rel.exit = 1 => ~version_format_ok(rel.version)
        /\ (rel.pc = "done" /\ version_format_ok(rel.version)) =>
              /\ rel.exit = 0
              /\ rel.bumped
              /\ Len(rel.reported) = Len(FILES_TO_UPDATE) + 4
              /\ SubSeq(rel.reported, Len(FILES_TO_UPDATE) + 1, Len(rel.reported))
                    = ReleaseCommands

\* a finished dry run on files that would be updated: they are reported as
\* updated, all four commands are reported, nothing was written or executed
C27_Witness ==
    /\ rel.pc = "done" /\ rel.dry_run /\ rel.exit = 0
    /\ rel.argv = <<"0.2.0", "--dry-run">>
    /\ rel.files0["pyproject.toml"] = "0.1.0"
    /\ rel.files["pyproject.toml"] = "0.1.0"
    /\ rel.reported[1] = "Updated pyproject.toml"
    /\ rel.reported[7] = "git tag v0.2.0"
    /\ rel.executed = <<>> /\ rel.writes = {}

----------------------------------------------------------------------------
(* Claims about accessor strings given to layers, checked under            *)
(* SpecAccessorLayer                                                       *)

\* C28: every string returned by ColorScale.accessor starts with '@@scale('
\* and is recognised by is_scale_accessor; passed as a color property of a
\* layer helper it is stored and emitted by to_dict() unchanged and is never
\* handed to normalize_color.
C28_AccessorPassThrough ==
    /\ (op.name = "accessor" /\ ret.kind = "str") =>
          /\ StartsWith(ret.s, "@@scale(")
          /\ is_scale_accessor(PyStr(ret.s))
    /\ layer_call.name = "_set_prop" =>
          /\ is_scale_accessor(layer_call.value)
          /\ ~is_color_value(layer.cls, layer_call.key, layer_call.value)
          /\ layer_ret = RetNone
          /\ layer.props[to_camel_case(layer_call.key)] = layer_call.value
    /\ layer_call.name = "to_dict" =>
          \A key \in layer_hist :
              /\ layer_ret.d[to_camel_case(key)] = layer.props[to_camel_case(key)]
              /\ layer_ret.d[to_camel_case(key)].kind = "str"
              /\ StartsWith(layer_ret.d[to_camel_case(key)].s, "@@scale(viridis")
              /\ EndsWith(layer_ret.d[to_camel_case(key)].s, ")")

\* a GeoJsonLayer given the accessor string of a fully configured scale as
\* its fill colour has emitted that string
C28_Witness ==
    /\ layer_call.name = "to_dict"
    /\ layer.cls = "GeoJsonLayer"
    /\ "get_fill_color" \in layer_hist
    /\ layer_ret.d["getFillColor"] = PyStr("@@scale(viridis:log:reverse, value, 0, 1, 128)")

----------------------------------------------------------------------------
(* Claims about the lifetime of ColorScale settings, checked under SpecScale *)

\* one step of a constructed builder keeps every setting that was made
C29_SettingsStep ==
    self # NoObject =>
        /\ self.reverse => self'.reverse
        /\ (op'.name = "reverse" /\ self.reverse) => self' = self
        /\ self.min # None => self'.min # None
        /\ self.max # None => self'.max # None
        /\ self.alpha # None => self'.alpha # None
        /\ (self.log \/ self.sqrt) => (self'.log # self'.sqrt)
        /\ op'.name \in {"log", "sqrt"} => (self'.log # self'.sqrt)

\* C29: ColorScale settings can only be added or overwritten, never cleared:
\* once reverse() has been called the flag stays true (reverse() again changes
\* nothing), once a domain or an alpha has been set no operation returns it to
\* unset, and once log() or sqrt() has been called exactly one of the two
\* modes stays active forever.
C29_SettingsKept == [][C29_SettingsStep]_vars

\* a builder with every setting made, on which reverse() was called again
\* after log() had replaced sqrt()
C29_Witness ==
    /\ self # NoObject
    /\ op.name = "reverse"
    /\ self.reverse /\ self.log /\ ~self.sqrt
    /\ hist.both /\ hist.revFirst
    /\ self.min # None /\ self.alpha # None

----------------------------------------------------------------------------
(* Claims about constructing MapLibre style layers, checked under SpecStyle *)

\* a step leaves the contents of the caller's paint and layout dicts as they
\* were
C30_CallerDictsStep ==
    /\ dicts'[CallerPaint] = dicts[CallerPaint]
    /\ dicts'[CallerLayout] = dicts[CallerLayout]

\* C30: constructing a MapLibre style layer with a caller-supplied paint or
\* layout dict together with convenience arguments leaves the caller's dict
\* unchanged, so two layers built from the same paint dict with different
\* convenience arguments each serialise only their own values in to_dict().
C30_CallerDictsKept == [][C30_CallerDictsStep]_vars

====
